---- MODULE Spec2Model ----
(***************************************************************************)
(* MikroTik WiFi Manager (ESP32 bridge controller): the scan orchestrator, *)
(* the transient storage manager, the security-profile reconciler and the  *)
(* connectivity supervisor, together with the router they drive.           *)
(*                                                                         *)
(* The firmware is single-threaded: loop() serves at most one HTTP request *)
(* and then runs handleWifiTasks().  Every handler is therefore one atomic *)
(* action, a supervisor tick separates two requests, and the router, the   *)
(* radio and the clock move between them.                                  *)
(*                                                                         *)
(* Time.  millis() is an unsigned 32-bit millisecond counter.  The model   *)
(* keeps every time value in ticks of 4 ms, so that the counter's period   *)
(* 2^32 ms is 2^30 ticks; all time constants of the program are multiples  *)
(* of 4 ms, and unsigned subtraction is taken modulo the period.           *)
(***************************************************************************)
EXTENDS Integers, Sequences, FiniteSets, TLC

VARIABLES
  scanState,             \* struct ScanState
  runtimeConfig,         \* struct RuntimeConfig (the fields the core reads)
  captivePortalActive,   \* bool captivePortalActive
  wifiReconnectPending,  \* bool wifiReconnectPending
  lastReconnectAttempt,  \* unsigned long lastReconnectAttempt
  wifi,                  \* the station: "idle", "connecting" or "connected"
  now,                   \* millis()
  elapses,               \* how often the clock has advanced
  router,                \* the router's state behind the REST API
  calls,                 \* the remote calls of the last handler, in order
  reply,                 \* the HTTP response of the last handler
  op,                    \* the name of the last step
  req,                   \* the arguments of the request just served
  lastConnect,           \* the arguments of the last connect, if it succeeded
  served,                \* loop(): a request was served since the last tick
  hist,                  \* per accepted scan: deliveries and releases so far,
                         \* whether the router took its trigger and whether
                         \* the router has exported since it was accepted
  stored,                \* the configuration file /config.json
  filesystemAvailable,   \* bool filesystemAvailable
  attempt,               \* the credentials of the last WiFi.begin()
  running                \* setup() has returned and loop() runs

vars == <<scanState, runtimeConfig, captivePortalActive, wifiReconnectPending,
          lastReconnectAttempt, wifi, now, elapses, router,
          calls, reply, op, req, lastConnect, served, hist,
          stored, filesystemAvailable, attempt, running>>

supervisorVars == <<captivePortalActive, wifiReconnectPending,
                    lastReconnectAttempt, wifi, attempt>>
configVars == <<runtimeConfig, stored, filesystemAvailable, running>>
clockVars == <<now, elapses>>

----------------------------------------------------------------------------
(* Bounds *)

MaxElapse == 4
MaxFaults == 1
MaxWait == 7

(* Program constants *)

SCAN_DURATION_SECONDS == 5
SCAN_RESULT_GRACE_MS == 2000
SCAN_POLL_INTERVAL_MS == 500
WIFI_RECONNECT_INTERVAL_MS == 30000
WIFI_INITIAL_CONNECT_TIMEOUT_MS == 10000

SCAN_CSV_FILENAME == "tmp1/wlan-scan.csv"
PROFILE_COMMENT_PREFIX == "wifi-manager:ssid="
CAPTIVE_REPLY == [code |-> 403, status |-> "Captive portal active"]

----------------------------------------------------------------------------
(* Clock arithmetic *)

MillisModulus == 2^30
Ticks(ms) == ms \div 4
ULong(x) == x % MillisModulus

ElapseSteps == {Ticks(2500)}

----------------------------------------------------------------------------
(* Value sets *)

Bands == {"2ghz", "5ghz"}
BandArgs == Bands \cup {""}
Ssids == {"home", "cafe"}
Names == {"client-home", "client-cafe"}
Modes == {"none", "dynamic-keys"}
Passwords == {"", "secret"}

\* Outcome of one remote call: answered; not delivered (transport failure or
\* rejection, the response is an error object); delivered with the response
\* lost to the timeout ("lost", mutations) or unparsable ("garbage", reads).
Outcomes == {"ok", "fail", "alt"}

NoReply == [code |-> 0, status |-> ""]
NoReq ==
  [ssid |-> "", password |-> "", band |-> "", requiresPassword |-> FALSE,
   profileName |-> ""]
IdleHist ==
  [delivered |-> 0, released |-> 0, triggered |-> FALSE, written |-> FALSE]

EmptyScanState ==
  [isScanning |-> FALSE, hasResult |-> FALSE, result |-> "", startTime |-> 0,
   band |-> "", csvFilename |-> "", expectedDurationMs |-> 0, minReadyMs |-> 0,
   resultTimeoutMs |-> 0, pollIntervalMs |-> 0]

----------------------------------------------------------------------------
(* The router behind the REST API *)

Marker(ssid) == [prefix |-> PROFILE_COMMENT_PREFIX, ssid |-> ssid]
NoComment == [prefix |-> "", ssid |-> ""]

RECURSIVE SeqRemove(_, _)
SeqRemove(s, name) ==
  IF s = <<>> THEN <<>>
  ELSE IF Head(s).name = name THEN SeqRemove(Tail(s), name)
       ELSE <<Head(s)>> \o SeqRemove(Tail(s), name)

Merge(rec, body) ==
  [f \in DOMAIN rec |-> IF f \in DOMAIN body THEN body[f] ELSE rec[f]]

HasName(profiles, name) == \E i \in 1..Len(profiles) : profiles[i].name = name

\* Whether the router carries out a request that reaches it.
RouterAccepts(r, method, path, id, body) ==
  CASE method = "PATCH" /\ path = "/interface/wireless" ->
         r.wlan.present /\ id = r.wlan.id
    [] method = "POST" /\ path = "/interface/wireless/scan" -> r.wlan.present
    [] method = "POST" /\ path = "/disk/add" -> ~r.tmpfs
    [] method = "POST" /\ path = "/disk/remove" -> r.tmpfs
    [] method = "POST" /\ path = "/file/remove" -> r.csv # ""
    [] method = "POST" /\ path = "/interface/wireless/security-profiles/add" ->
         ~HasName(r.profiles, body.name)
    [] method \in {"PATCH", "DELETE"}
         /\ path = "/interface/wireless/security-profiles" ->
         HasName(r.profiles, id)
    [] OTHER -> method = "GET"

\* The router's state after it carried out a request.
RouterApply(r, method, path, id, body) ==
  CASE method = "PATCH" /\ path = "/interface/wireless" ->
         [r EXCEPT !.wlan = Merge(r.wlan, body)]
    [] method = "POST" /\ path = "/interface/wireless/scan" ->
         [r EXCEPT !.job = r.wlan.band]
    [] method = "POST" /\ path = "/disk/add" -> [r EXCEPT !.tmpfs = TRUE]
    [] method = "POST" /\ path = "/disk/remove" ->
         [r EXCEPT !.tmpfs = FALSE, !.csv = ""]
    [] method = "POST" /\ path = "/file/remove" -> [r EXCEPT !.csv = ""]
    [] method = "POST" /\ path = "/interface/wireless/security-profiles/add" ->
         [r EXCEPT !.profiles =
            Append(@, Merge([name |-> "", comment |-> NoComment,
                             mode |-> "none", auth |-> "", psk |-> ""],
                            body))]
    [] method = "PATCH" /\ path = "/interface/wireless/security-profiles" ->
         [r EXCEPT !.profiles =
            [i \in 1..Len(@) |-> IF @[i].name = id THEN Merge(@[i], body)
                                 ELSE @[i]]]
    [] method = "DELETE" /\ path = "/interface/wireless/security-profiles" ->
         [r EXCEPT !.profiles = SeqRemove(@, id)]
    [] OTHER -> r

\* Files the router holds besides the artifact: an older export on flash.
StaleFiles ==
  <<[name |-> "flash/wlan-scan.csv", contents |-> "csv:old", id |-> "*a"]>>

\* The JSON document a read returns.  While the scan job runs on a mounted
\* volume, the artifact is listed with empty contents.
RouterList(r, path) ==
  CASE path = "/interface/wireless" ->
         IF r.wlan.present THEN <<r.wlan>> ELSE <<>>
    [] path = "/disk" -> IF r.tmpfs THEN <<[slot |-> "tmp1", id |-> "*1"]>>
                         ELSE <<>>
    [] path = "/file" ->
         StaleFiles \o
         (IF r.csv # ""
          THEN <<[name |-> SCAN_CSV_FILENAME, contents |-> r.csv, id |-> "*f"]>>
          ELSE IF r.tmpfs /\ r.job # ""
               THEN <<[name |-> SCAN_CSV_FILENAME, contents |-> "",
                       id |-> "*f"]>>
               ELSE <<>>)
    [] path = "/interface/wireless/security-profiles" -> r.profiles
    [] OTHER -> <<>>

----------------------------------------------------------------------------
(* Remote API client.  A handler threads a world w through its calls:      *)
(* w.router is the router, w.calls the calls issued so far, w.faults how   *)
(* many of them failed, w.scanning the in-progress flag at that point of   *)
(* the handler, w.response the response of the last call.  A call has      *)
(* several outcomes, so every step of a handler yields a set of worlds.    *)

NoResponse == [json |-> FALSE, array |-> FALSE, list |-> <<>>]

World ==
  [router |-> router, calls |-> <<>>, faults |-> 0,
   scanning |-> scanState.isScanning, response |-> NoResponse]

\* One call with outcome res.  A call that reaches the router is carried out
\* if the router accepts it; only an answered read returns the list.
mikrotikRequest(w, method, path, id, body, res) ==
  LET done == res # "fail" /\ RouterAccepts(w.router, method, path, id, body)
      response ==
        IF method = "GET" /\ res = "alt" THEN NoResponse
        ELSE IF method = "GET" /\ res = "ok"
             THEN [json |-> TRUE, array |-> TRUE,
                   list |-> RouterList(w.router, path)]
             ELSE [json |-> TRUE, array |-> FALSE, list |-> <<>>]
  IN [router |-> IF done /\ method # "GET"
                 THEN RouterApply(w.router, method, path, id, body)
                 ELSE w.router,
      calls |-> Append(w.calls,
                  [method |-> method, path |-> path, id |-> id, body |-> body,
                   res |-> res, done |-> done, scanning |-> w.scanning]),
      faults |-> w.faults + (IF res = "ok" THEN 0 ELSE 1),
      scanning |-> w.scanning,
      response |-> response]

Request(w, method, path, id, body) ==
  {mikrotikRequest(w, method, path, id, body, res) :
     res \in IF w.faults < MaxFaults THEN Outcomes ELSE {"ok"}}

Get(w, path) == Request(w, "GET", path, "", [x |-> 0])

\* delay(ms) inside a handler, kept in the call sequence.
Delay(w, ms) ==
  [w EXCEPT !.calls = Append(w.calls,
      [method |-> "delay", path |-> "", id |-> "", body |-> [ms |-> ms],
       res |-> "ok", done |-> TRUE, scanning |-> w.scanning])]

First(S) == CHOOSE i \in S : \A j \in S : i <= j
Last(S) == CHOOSE i \in S : \A j \in S : j <= i

\* A faulty variant of FoundInterface: an entry without .id counts as found.
FoundInterface_m(w) ==
  LET hit == {i \in 1..Len(w.response.list) :
                w.response.list[i].name = runtimeConfig.mikrotikWlanInterface}
  IN IF w.response.json /\ w.response.array /\ hit # {}
     THEN LET iface == w.response.list[First(hit)]
          IN [w |-> w, found |-> TRUE, id |-> iface.id, band |-> iface.band]
     ELSE [w |-> w, found |-> FALSE, id |-> "", band |-> ""]

\* The interface lookup on the response w.response.
FoundInterface(w) ==
  LET hit == {i \in 1..Len(w.response.list) :
                w.response.list[i].name = runtimeConfig.mikrotikWlanInterface}
  IN IF w.response.json /\ w.response.array /\ hit # {}
     THEN LET iface == w.response.list[First(hit)]
          IN [w |-> w, found |-> iface.id # "", id |-> iface.id,
              band |-> iface.band]
     ELSE [w |-> w, found |-> FALSE, id |-> "", band |-> ""]

fetchConfiguredWirelessInterface(w0) ==
  {FoundInterface(w) : w \in Get(w0, "/interface/wireless")}

----------------------------------------------------------------------------
(* Transient storage (tmpfs) *)

\* A faulty variant of IsTmp1: no volume is recognised.
IsTmp1_m(disk) == FALSE

IsTmp1(disk) == disk.slot = "tmp1"
\* A faulty variant of Tmp1In: the listing is searched in vain.
Tmp1In_m(list) == {}

Tmp1In(list) == {i \in 1..Len(list) : IsTmp1(list[i])}

ensureTmpfs(w0) ==
  UNION {
    IF ~w.response.json THEN {[w |-> w, ok |-> FALSE]}
    ELSE IF w.response.array /\ Tmp1In(w.response.list) # {}
         THEN {[w |-> w, ok |-> TRUE]}
         ELSE {[w |-> w2, ok |-> TRUE] :
                 w2 \in Request(w, "POST", "/disk/add", "",
                                [type |-> "tmpfs", size |-> "1"])}
    : w \in Get(w0, "/disk")}

\* A faulty variant of removeTmpfs: nothing is released.
removeTmpfs_m(w0) == {w0}

removeTmpfs(w0) ==
  UNION {
    IF w.response.json /\ w.response.array /\ Tmp1In(w.response.list) # {}
    THEN LET disk == w.response.list[First(Tmp1In(w.response.list))]
         IN IF disk.id # ""
            THEN Request(w, "POST", "/disk/remove", "", [numbers |-> disk.id])
            ELSE {w}
    ELSE {w}
    : w \in Get(w0, "/disk")}

----------------------------------------------------------------------------
(* HTTP boundary *)

\* A faulty variant of ensureOperationAllowed: nothing is refused.
ensureOperationAllowed_m == TRUE

ensureOperationAllowed == ~captivePortalActive

\* server.handleClient() has a request to serve in this loop iteration.
Serving == running /\ ~served

\* A handler ends: the router, the call sequence and the response it leaves.
Finish(name, w, r) ==
  /\ router' = w.router
  /\ calls' = w.calls
  /\ reply' = r
  /\ op' = name
  /\ served' = TRUE

Rejected(name) ==
  /\ ~ensureOperationAllowed
  /\ Finish(name, World, CAPTIVE_REPLY)

----------------------------------------------------------------------------
(* Scan orchestrator *)

\* A faulty variant of StartedState: the flag is left clear.
StartedState_m(band) ==
  LET expected ==
        ULong(runtimeConfig.scanDurationSeconds * Ticks(1000))
  IN [isScanning |-> FALSE, hasResult |-> FALSE, result |-> "",
      startTime |-> now, band |-> band, csvFilename |-> SCAN_CSV_FILENAME,
      expectedDurationMs |-> expected, minReadyMs |-> expected,
      resultTimeoutMs |->
        ULong(expected + Ticks(SCAN_RESULT_GRACE_MS)
                       + Ticks(SCAN_POLL_INTERVAL_MS)),
      pollIntervalMs |-> Ticks(SCAN_POLL_INTERVAL_MS)]

StartedState(band) ==
  LET expected ==
        ULong(runtimeConfig.scanDurationSeconds * Ticks(1000))
  IN [isScanning |-> TRUE, hasResult |-> FALSE, result |-> "",
      startTime |-> now, band |-> band, csvFilename |-> SCAN_CSV_FILENAME,
      expectedDurationMs |-> expected, minReadyMs |-> expected,
      resultTimeoutMs |->
        ULong(expected + Ticks(SCAN_RESULT_GRACE_MS)
                       + Ticks(SCAN_POLL_INTERVAL_MS)),
      pollIntervalMs |-> Ticks(SCAN_POLL_INTERVAL_MS)]

StartedReply(ss) ==
  [code |-> 200, status |-> "started", duration_ms |-> ss.expectedDurationMs,
   min_ready_ms |-> ss.minReadyMs, timeout_ms |-> ss.resultTimeoutMs,
   poll_interval_ms |-> ss.pollIntervalMs, csv_filename |-> ss.csvFilename]

\* A faulty variant of SwitchBand: the band is never switched.
SwitchBand_m(f, band) == {f.w}

\* The band switch: a PATCH and the settle delay, if the bands differ.
SwitchBand(f, band) ==
  IF band # "" /\ f.band # band
  THEN {Delay(w, 500) :
          w \in Request(f.w, "PATCH", "/interface/wireless", f.id,
                        [band |-> band])}
  ELSE {f.w}

\* The scan-trigger call, issued with ScanState as it stands at that point.
TriggerScan(w, ss) ==
  Request([w EXCEPT !.scanning = ss.isScanning], "POST",
          "/interface/wireless/scan", "",
          [id |-> runtimeConfig.mikrotikWlanInterface,
           duration |-> runtimeConfig.scanDurationSeconds,
           file |-> ss.csvFilename])

\* Whether the storage step lets the scan go on.
TmpfsReady(e) == e.ok

\* handleScanStart past the in-progress check: the ways it can end, each
\* with the world, the new ScanState and the response.
StartScan(band) ==
  UNION {
    IF ~f.found
    THEN {[w |-> f.w, ss |-> scanState, accepted |-> FALSE,
           reply |-> [code |-> 404,
                      status |-> "Configured WLAN interface not found"]]}
    ELSE UNION {
      UNION {
        IF ~TmpfsReady(e)
        THEN {[w |-> e.w, ss |-> scanState, accepted |-> FALSE,
               reply |-> [code |-> 500, status |-> "tmpfs not available"]]}
        ELSE LET ss == StartedState(band)
             IN {[w |-> w3, ss |-> ss, accepted |-> TRUE,
                  reply |-> StartedReply(ss)] : w3 \in TriggerScan(e.w, ss)}
        : e \in ensureTmpfs(w1)}
      : w1 \in SwitchBand(f, band)}
    : f \in fetchConfiguredWirelessInterface(World)}

\* A faulty variant of AlreadyScanning: the check never fires.
AlreadyScanning_m == FALSE

\* The check "a scan is already running" of handleScanStart.
AlreadyScanning == scanState.isScanning

handleScanStart(arg) ==
  LET band == IF arg = "" THEN runtimeConfig.band2ghz ELSE arg
  IN /\ Serving
     /\ req' = [NoReq EXCEPT !.band = band]
     /\ UNCHANGED <<configVars, supervisorVars, clockVars, lastConnect>>
     /\ \/ Rejected("start") /\ UNCHANGED <<scanState, hist>>
        \/ /\ ensureOperationAllowed
           /\ AlreadyScanning
           /\ Finish("start", World,
                     [code |-> 200, status |-> "already_scanning"])
           /\ UNCHANGED <<scanState, hist>>
        \/ /\ ensureOperationAllowed
           /\ ~AlreadyScanning
           /\ \E s \in StartScan(band) :
                /\ Finish("start", s.w, s.reply)
                /\ scanState' = s.ss
                /\ hist' = IF s.accepted
                           THEN [IdleHist EXCEPT
                                   !.triggered = s.w.calls[Len(s.w.calls)].done]
                           ELSE hist

\* A faulty variant of the elapsed time: a signed difference.
Elapsed_m == now - scanState.startTime

Elapsed == ULong(now - scanState.startTime)
MinReady ==
  IF scanState.minReadyMs > 0 THEN scanState.minReadyMs
  ELSE ULong(runtimeConfig.scanDurationSeconds * Ticks(1000))
Timeout ==
  IF scanState.resultTimeoutMs > 0 THEN scanState.resultTimeoutMs
  ELSE ULong(MinReady + Ticks(SCAN_RESULT_GRACE_MS)
                      + Ticks(SCAN_POLL_INTERVAL_MS))

\* Faulty variants of the guard and the state updates below.
TooEarly_m == Elapsed * 2 < MinReady
TimedOutState_m(ss) == ss
DeliveredState_m(ss) == [ss EXCEPT !.hasResult = FALSE, !.result = ""]
TimedOut_m == FALSE
\* A faulty variant of the delivery: the result is kept for a later call.
BufferedState_m(ss) ==
  [ss EXCEPT !.isScanning = FALSE, !.hasResult = TRUE, !.result = "csv"]

\* The guards of handleScanResult.
TooEarly == Elapsed < MinReady
TimedOut == Elapsed > Timeout

\* ScanState after the timeout path and after a delivery.
TimedOutState(ss) == [ss EXCEPT !.isScanning = FALSE]
DeliveredState(ss) ==
  [ss EXCEPT !.isScanning = FALSE, !.hasResult = FALSE, !.result = ""]

\* A faulty variant of PickFile: any file with content will do.
PickFile_m(files, expectedFile) ==
  LET full == {i \in 1..Len(files) : files[i].contents # ""}
  IN IF full # {} THEN files[First(full)]
     ELSE [name |-> "", contents |-> "", id |-> ""]

\* The file the loop over the listing settles on: it stops at the first
\* match with content, else it keeps the last match.
PickFile(files, expectedFile) ==
  LET named == {i \in 1..Len(files) : files[i].name = expectedFile}
      full == {i \in named : files[i].contents # ""}
  IN IF full # {} THEN files[First(full)]
     ELSE IF named # {} THEN files[Last(named)]
          ELSE [name |-> "", contents |-> "", id |-> ""]

KnownProfiles(plist) ==
  {[ssid |-> plist[i].comment.ssid, name |-> plist[i].name,
    mode |-> plist[i].mode] :
     i \in {j \in 1..Len(plist) :
              plist[j].comment.prefix = PROFILE_COMMENT_PREFIX}}

\* The success path: profile list, response, state reset, file removal and
\* release of the tmpfs volume.
DeliverScan(w1, file) ==
  LET ss == DeliveredState(scanState)
  IN UNION {
       UNION {
         {[w |-> w4, ss |-> ss, delivered |-> TRUE, released |-> TRUE,
           reply |-> [code |-> 200, status |-> "result",
                      csv |-> file.contents, band |-> scanState.band,
                      profiles |->
                        KnownProfiles(IF w2.response.json /\ w2.response.array
                                      THEN w2.response.list ELSE <<>>)]]
            : w4 \in removeTmpfs(w3)}
         : w3 \in IF file.id # ""
                  THEN Request([w2 EXCEPT !.scanning = ss.isScanning], "POST",
                               "/file/remove", "", [numbers |-> file.id])
                  ELSE {[w2 EXCEPT !.scanning = ss.isScanning]}}
       : w2 \in Get(w1, "/interface/wireless/security-profiles")}

\* handleScanResult past the min-ready and timeout guards: one look at the
\* router's files.
PollScan ==
  UNION {
    LET file == PickFile(IF w1.response.json /\ w1.response.array
                         THEN w1.response.list ELSE <<>>,
                         IF scanState.csvFilename # ""
                         THEN scanState.csvFilename ELSE SCAN_CSV_FILENAME)
    IN IF file.contents = ""
       THEN {[w |-> w1, ss |-> scanState, delivered |-> FALSE,
              released |-> FALSE,
              reply |-> [code |-> 200, status |-> "pending"]]}
       ELSE DeliverScan(w1, file)
    : w1 \in Get(World, "/file")}

\* A faulty variant of ExpireScan: a release that failed keeps the scan in
\* progress, to be released again by the next call.
ExpireScan_m ==
  {[w |-> w,
    ss |-> IF w.calls[Len(w.calls)].res = "ok" /\ w.calls[Len(w.calls)].done
           THEN TimedOutState(scanState) ELSE scanState,
    delivered |-> FALSE, released |-> TRUE,
    reply |-> [code |-> 200, status |-> "timeout"]]
     : w \in removeTmpfs(World)}

\* The timeout path: state reset, then release of the tmpfs volume.
ExpireScan ==
  LET ss == TimedOutState(scanState)
  IN {[w |-> w, ss |-> ss, delivered |-> FALSE, released |-> TRUE,
       reply |-> [code |-> 200, status |-> "timeout"]]
        : w \in removeTmpfs([World EXCEPT !.scanning = ss.isScanning])}

\* The counters stop at 2: one more than any scan may reach.
Bump(h, delivered, released) ==
  [h EXCEPT
     !.delivered = IF delivered /\ h.delivered < 2 THEN h.delivered + 1
                   ELSE h.delivered,
     !.released = IF released /\ h.released < 2 THEN h.released + 1
                  ELSE h.released]

handleScanResult ==
  /\ Serving
  /\ req' = NoReq
  /\ UNCHANGED <<configVars, supervisorVars, clockVars, lastConnect>>
  /\ \/ Rejected("result") /\ UNCHANGED <<scanState, hist>>
     \/ /\ ensureOperationAllowed
        /\ scanState.hasResult
        /\ Finish("result", World,
                  [code |-> 200, status |-> "result", csv |-> scanState.result,
                   band |-> scanState.band, profiles |-> {}])
        /\ scanState' = [scanState EXCEPT !.hasResult = FALSE, !.result = "",
                                          !.isScanning = FALSE]
        /\ hist' = Bump(hist, TRUE, FALSE)
     \/ /\ ensureOperationAllowed
        /\ ~scanState.hasResult
        /\ ~scanState.isScanning
        /\ Finish("result", World,
                  [code |-> 200, status |-> "no_result"])
        /\ UNCHANGED <<scanState, hist>>
     \/ /\ ensureOperationAllowed
        /\ ~scanState.hasResult
        /\ scanState.isScanning
        /\ TooEarly
        /\ Finish("result", World,
                  [code |-> 200, status |-> "pending"])
        /\ UNCHANGED <<scanState, hist>>
     \/ /\ ensureOperationAllowed
        /\ ~scanState.hasResult
        /\ scanState.isScanning
        /\ ~TooEarly
        /\ \E p \in IF TimedOut THEN ExpireScan ELSE PollScan :
             /\ Finish("result", p.w, p.reply)
             /\ scanState' = p.ss
             /\ hist' = Bump(hist, p.delivered, p.released)

----------------------------------------------------------------------------
(* Security profile reconciler *)

\* "client-" + ssid.substring(0, 20); the SSIDs of the model are shorter.
DefaultName(ssid) == "client-" \o ssid

\* The profile name: the one the frontend sent, or the default.
ProfileName(ssid, hint) == IF hint = "" THEN DefaultName(ssid) ELSE hint

DesiredMode(requiresPassword) ==
  IF requiresPassword THEN "dynamic-keys" ELSE "none"

\* The loop over the listing: the first profile whose name equals the
\* profile name or whose comment equals the marker; 0 if there is none.
FindProfile(list, profileName, comment) ==
  LET hit == {i \in 1..Len(list) :
                list[i].name = profileName \/ list[i].comment = comment}
  IN IF hit = {} THEN 0 ELSE First(hit)

\* A faulty variant of NeedsRecreate: a mode change is patched in place.
NeedsRecreate_m(existingMode, desiredMode) == FALSE
NeedsRecreate(existingMode, desiredMode) == existingMode # desiredMode

\* A faulty variant of the payload: the key fields are always sent.
ProfilePayload_m(comment, password, requiresPassword) ==
  [comment |-> comment, mode |-> DesiredMode(requiresPassword),
   auth |-> IF requiresPassword THEN "wpa-psk,wpa2-psk" ELSE "",
   psk |-> password]

ProfilePayload(comment, password, requiresPassword) ==
  IF requiresPassword
  THEN IF password # ""
       THEN [comment |-> comment, mode |-> "dynamic-keys",
             auth |-> "wpa-psk,wpa2-psk", psk |-> password]
       ELSE [comment |-> comment, mode |-> "dynamic-keys",
             auth |-> "wpa-psk,wpa2-psk"]
  ELSE [comment |-> comment, mode |-> "none", auth |-> "", psk |-> ""]

\* Whether the create branch gives up for want of a password.
PasswordMissing(password, requiresPassword) ==
  requiresPassword /\ password = ""

WithName(payload, name) ==
  [f \in DOMAIN payload \cup {"name"} |->
     IF f = "name" THEN name ELSE payload[f]]

\* The ways ensureSecurityProfile can end: the world and the returned name.
ensureSecurityProfile(w0, ssid, password, requiresPassword, hint) ==
  LET profileName == ProfileName(ssid, hint)
      comment == Marker(ssid)
      desiredMode == DesiredMode(requiresPassword)
      payload == ProfilePayload(comment, password, requiresPassword)
  IN UNION {
       LET list == IF w.response.json /\ w.response.array
                   THEN w.response.list ELSE <<>>
           t == FindProfile(list, profileName, comment)
           recreate == t # 0 /\ NeedsRecreate(list[t].mode, desiredMode)
           afterDelete ==
             IF recreate
             THEN Request(w, "DELETE", "/interface/wireless/security-profiles",
                          list[t].name, [x |-> 0])
             ELSE {w}
       IN UNION {
            IF t # 0 /\ ~recreate
            THEN {[w |-> w2, name |-> list[t].name] :
                    w2 \in Request(w1, "PATCH",
                                   "/interface/wireless/security-profiles",
                                   list[t].name, payload)}
            ELSE IF PasswordMissing(password, requiresPassword)
                 THEN {[w |-> w1, name |-> profileName]}
                 ELSE {[w |-> w2, name |-> profileName] :
                         w2 \in Request(w1, "POST",
                                  "/interface/wireless/security-profiles/add",
                                  "", WithName(payload, profileName))}
            : w1 \in afterDelete}
       : w \in Get(w0, "/interface/wireless/security-profiles")}

\* handleConnect past the captive-portal check.
Connect(a) ==
  UNION {
    UNION {
      IF ~f.found
      THEN {[w |-> f.w,
             reply |-> [code |-> 404,
                        status |-> "Configured WLAN interface not found"]]}
      ELSE {[w |-> w2, reply |-> [code |-> 200, status |-> "success"]] :
              w2 \in Request(f.w, "PATCH", "/interface/wireless", f.id,
                             [mode |-> "station", ssid |-> a.ssid,
                              band |-> a.band, profile |-> e.name,
                              disabled |-> "no"])}
      : f \in fetchConfiguredWirelessInterface(e.w)}
    : e \in ensureSecurityProfile(World, a.ssid, a.password,
                                  a.requiresPassword, a.profileName)}

ConnectArgs ==
  [ssid : Ssids, password : Passwords, band : {"5ghz"},
   requiresPassword : BOOLEAN, profileName : Names \cup {""}]

AllOk(cs) == \A i \in 1..Len(cs) : cs[i].res = "ok" /\ cs[i].done

handleConnect(a) ==
  /\ Serving
  /\ UNCHANGED <<scanState, configVars, supervisorVars, clockVars, hist>>
  /\ req' = a
  /\ \/ Rejected("connect") /\ lastConnect' = NoReq
     \/ /\ ensureOperationAllowed
        /\ \E c \in Connect(a) :
             /\ Finish("connect", c.w, c.reply)
             /\ lastConnect' = IF c.reply.code = 200 /\ AllOk(c.w.calls)
                               THEN a ELSE NoReq

\* handleDisconnect past the captive-portal check.
Disconnect ==
  UNION {
    IF ~f.found
    THEN {[w |-> f.w,
           reply |-> [code |-> 404,
                      status |-> "Configured WLAN interface not found"]]}
    ELSE {[w |-> w2, reply |-> [code |-> 200, status |-> "success"]] :
            w2 \in Request(f.w, "PATCH", "/interface/wireless", f.id,
                           [disabled |-> "yes"])}
    : f \in fetchConfiguredWirelessInterface(World)}

handleDisconnect ==
  /\ Serving
  /\ req' = NoReq
  /\ UNCHANGED <<scanState, configVars, supervisorVars, clockVars, hist,
                 lastConnect>>
  /\ \/ Rejected("disconnect")
     \/ /\ ensureOperationAllowed
        /\ \E d \in Disconnect : Finish("disconnect", d.w, d.reply)

\* A faulty variant of FindManaged: the name alone selects the profile.
FindManaged_m(list, profileName, ssid) ==
  LET hit == {i \in 1..Len(list) :
                \/ profileName # "" /\ list[i].name = profileName
                \/ ssid # "" /\ list[i].comment = Marker(ssid)}
  IN IF hit = {} THEN 0 ELSE First(hit)

\* The loop of handleDeleteProfile over the listing: the first profile that
\* carries the marker of ssid and, unless the request gives an ssid, also
\* has the requested name; 0 if there is none.
FindManaged(list, profileName, ssid) ==
  LET hit == {i \in 1..Len(list) :
                /\ list[i].comment = Marker(ssid)
                /\ \/ profileName # "" /\ list[i].name = profileName
                   \/ ssid # ""}
  IN IF hit = {} THEN 0 ELSE First(hit)

\* Whether the response of the last call contains "error": the call was not
\* answered in time or the router refused it.
Failed(w) ==
  LET c == w.calls[Len(w.calls)] IN ~(c.res = "ok" /\ c.done)

\* handleDeleteProfile past the captive-portal check.
DeleteProfile(a) ==
  IF ~a.valid
  THEN {[w |-> World, reply |-> [code |-> 400, status |-> "Invalid JSON"]]}
  ELSE IF a.profileName = "" /\ a.ssid = ""
  THEN {[w |-> World,
         reply |-> [code |-> 400, status |-> "Missing profileName or ssid"]]}
  ELSE UNION {
    IF ~w.response.json
    THEN {[w |-> w,
           reply |-> [code |-> 500, status |-> "Failed to read profiles"]]}
    ELSE LET list == IF w.response.array THEN w.response.list ELSE <<>>
             t == FindManaged(list, a.profileName, a.ssid)
         IN IF t = 0
            THEN {[w |-> w,
                   reply |-> [code |-> 404,
                              status |-> "Managed profile not found"]]}
            ELSE {[w |-> w2,
                   reply |-> IF Failed(w2)
                             THEN [code |-> 500,
                                   status |-> "Failed to delete profile"]
                             ELSE [code |-> 200, status |-> "success"]] :
                    w2 \in Request(w, "DELETE",
                                   "/interface/wireless/security-profiles",
                                   list[t].name, [x |-> 0])}
    : w \in Get(World, "/interface/wireless/security-profiles")}

DeleteArgs ==
  {[valid |-> FALSE, profileName |-> "", ssid |-> ""]} \cup
  [valid : {TRUE}, profileName : Names \cup {""}, ssid : Ssids \cup {""}]

handleDeleteProfile(a) ==
  /\ Serving
  /\ req' = a
  /\ UNCHANGED <<scanState, configVars, supervisorVars, clockVars, hist,
                 lastConnect>>
  /\ \/ Rejected("delete")
     \/ /\ ensureOperationAllowed
        /\ \E d \in DeleteProfile(a) : Finish("delete", d.w, d.reply)

----------------------------------------------------------------------------
(* Environment of the scan: the clock and the router's own scan job *)

\* Non-handler steps leave no call sequence and no response behind.
Quiet(name) ==
  /\ calls' = <<>>
  /\ reply' = NoReply
  /\ op' = name
  /\ req' = NoReq
  /\ UNCHANGED lastConnect

Elapse ==
  /\ running
  /\ elapses < MaxElapse
  /\ \E d \in ElapseSteps : now' = ULong(now + d)
  /\ elapses' = elapses + 1
  /\ Quiet("elapse")
  /\ UNCHANGED <<scanState, configVars, supervisorVars, router, hist,
                 served>>

\* The router finishes the scan it was asked for and exports the list to the
\* file on the tmpfs volume, if that volume exists.
RouterScanDone ==
  /\ router.job # ""
  /\ router' = [router EXCEPT !.job = "",
                              !.csv = IF router.tmpfs THEN "csv:" \o router.job
                                      ELSE router.csv]
  /\ hist' = [hist EXCEPT !.written = @ \/ router.tmpfs]
  /\ Quiet("scandone")
  /\ UNCHANGED <<scanState, configVars, supervisorVars, clockVars, served>>

----------------------------------------------------------------------------
(* Runtime configuration and its file *)

\* applyDefaultConfig: the compile-time defaults.
InitConfig ==
  [wifiSsid |-> "uplink", wifiPassword |-> "pw",
   mikrotikWlanInterface |-> "wlan1",
   band2ghz |-> "2ghz", band5ghz |-> "5ghz",
   scanDurationSeconds |-> SCAN_DURATION_SECONDS]

\* The RuntimeConfig global before setup() has filled it.
ZeroConfig ==
  [wifiSsid |-> "", wifiPassword |-> "", mikrotikWlanInterface |-> "",
   band2ghz |-> "", band5ghz |-> "", scanDurationSeconds |-> 0]

\* The file: absent, unparsable, or a document holding the sections in keys.
Sections == {"wifi", "mikrotik", "bands", "scan"}
NoFile == [state |-> "missing", keys |-> {}, cfg |-> ZeroConfig]

\* A faulty variant of LoadedDuration: the stored value is taken as it is.
LoadedDuration_m(file) ==
  IF "scan" \in file.keys THEN file.cfg.scanDurationSeconds
  ELSE SCAN_DURATION_SECONDS

\* The scan duration loadRuntimeConfigFromFile ends up with.
LoadedDuration(file) ==
  LET d == IF "scan" \in file.keys THEN file.cfg.scanDurationSeconds
           ELSE SCAN_DURATION_SECONDS
  IN IF d <= 0 THEN SCAN_DURATION_SECONDS ELSE d

\* The configuration read from a parsed document: a value the document
\* lacks keeps its default.
Loaded(file) ==
  LET pick(section, field) ==
        IF section \in file.keys THEN file.cfg[field] ELSE InitConfig[field]
  IN [wifiSsid |-> pick("wifi", "wifiSsid"),
      wifiPassword |-> pick("wifi", "wifiPassword"),
      mikrotikWlanInterface |-> pick("mikrotik", "mikrotikWlanInterface"),
      band2ghz |-> pick("bands", "band2ghz"),
      band5ghz |-> pick("bands", "band5ghz"),
      scanDurationSeconds |-> LoadedDuration(file)]

\* saveRuntimeConfigToFile: the file afterwards and the returned flag; the
\* file cannot be written without a filesystem and may fail to open.
saveRuntimeConfigToFile(cfg, file, fs) ==
  {[ok |-> FALSE, file |-> file]} \cup
  (IF fs THEN {[ok |-> TRUE,
               file |-> [state |-> "ok", keys |-> Sections, cfg |-> cfg]]}
   ELSE {})

\* loadRuntimeConfigFromFile with the filesystem mounted: the configuration
\* and the file afterwards.
loadRuntimeConfigFromFile(file) ==
  IF file.state = "missing"
  THEN {[cfg |-> InitConfig, file |-> sv.file] :
          sv \in saveRuntimeConfigToFile(InitConfig, file, TRUE)}
  ELSE IF file.state = "corrupt"
       THEN {[cfg |-> InitConfig, file |-> file]}
       ELSE {[cfg |-> InitConfig, file |-> file],
             [cfg |-> Loaded(file), file |-> file]}

\* String::trim() on the strings of the model.
Trim(str) ==
  CASE str = " " -> ""
    [] str = " lan2 " -> "lan2"
    [] str = " wlan2 " -> "wlan2"
    [] OTHER -> str

\* The request bodies of POST /api/settings: has is the set of keys the
\* body carries.
SettingsKeys == {"ssid", "password", "wlan_interface", "duration_seconds"}
SettingsBodies ==
  {[valid |-> FALSE, has |-> {}, ssid |-> "", password |-> "",
    wlan_interface |-> "", duration_seconds |-> 0]} \cup
  {[valid |-> TRUE, has |-> h,
    ssid |-> IF "ssid" \in h THEN ss ELSE "",
    password |-> IF "password" \in h THEN "pw2" ELSE "",
    wlan_interface |-> IF "wlan_interface" \in h THEN " wlan2 " ELSE "",
    duration_seconds |-> IF "duration_seconds" \in h THEN d ELSE 0] :
     h \in SUBSET SettingsKeys, ss \in {" ", " lan2 "}, d \in {0, 7}}

\* RuntimeConfig after the assignments of handleSettingsUpdate up to the
\* scan section.
Assigned(cfg, b) ==
  [cfg EXCEPT
     !.wifiSsid = IF "ssid" \in b.has THEN Trim(b.ssid) ELSE @,
     !.wifiPassword = IF "password" \in b.has THEN b.password ELSE @,
     !.mikrotikWlanInterface =
        IF "wlan_interface" \in b.has THEN Trim(b.wlan_interface) ELSE @]

\* A faulty variant of wifiChanged: a new SSID alone does not count.
wifiChanged_m(b) == "password" \in b.has

wifiChanged(b) == "ssid" \in b.has \/ "password" \in b.has
mikrotikChanged(b) == "wlan_interface" \in b.has
scanChanged(b) == "duration_seconds" \in b.has

SettingsReply(b, captive) ==
  [code |-> 200, status |-> "success", wifi_changed |-> wifiChanged(b),
   mikrotik_changed |-> mikrotikChanged(b), captive_portal |-> captive]

----------------------------------------------------------------------------
(* GET /api/config.  The handler computes in int: 32 bits, signed, in      *)
(* milliseconds, so the range is [-2^31, 2^31) ms = [-2^29, 2^29) ticks.   *)
(* An overflow of signed arithmetic is undefined: the value is the wrapped *)
(* one or the largest int, whichever the build produces.                   *)

IntLimit == 2^29
IntWrap(x) == ((x + IntLimit) % (2 * IntLimit)) - IntLimit
IntOf(x) ==
  IF -IntLimit <= x /\ x < IntLimit THEN {x} ELSE {IntWrap(x), IntLimit - 1}

\* The documents handleConfig can send for a configuration.
ConfigReplies(cfg) ==
  {[code |-> 200, status |-> "config",
    band_2ghz |-> cfg.band2ghz, band_5ghz |-> cfg.band5ghz,
    scan_duration_ms |-> d, scan_min_ready_ms |-> m,
    scan_result_grace_ms |-> Ticks(SCAN_RESULT_GRACE_MS),
    scan_timeout_ms |-> t,
    scan_poll_interval_ms |-> Ticks(SCAN_POLL_INTERVAL_MS),
    scan_csv_filename |-> SCAN_CSV_FILENAME] :
     d \in IntOf(cfg.scanDurationSeconds * Ticks(1000)),
     m \in IntOf(cfg.scanDurationSeconds * Ticks(1000)),
     t \in UNION {UNION {IntOf(g + Ticks(SCAN_POLL_INTERVAL_MS)) :
                           g \in IntOf(p + Ticks(SCAN_RESULT_GRACE_MS))} :
                    p \in IntOf(cfg.scanDurationSeconds * Ticks(1000))}}

\* The handler is not behind ensureOperationAllowed.
handleConfig ==
  /\ Serving
  /\ req' = NoReq
  /\ \E r \in ConfigReplies(runtimeConfig) : Finish("config", World, r)
  /\ UNCHANGED <<scanState, configVars, supervisorVars, clockVars, hist,
                 lastConnect>>

----------------------------------------------------------------------------
(* Connectivity supervisor *)

\* The arguments of WiFi.begin().
Credentials(cfg) == [ssid |-> cfg.wifiSsid, password |-> cfg.wifiPassword]
NoAttempt == [ssid |-> "", password |-> ""]

\* A faulty variant of stopCaptivePortal: the access point stays up.
stopCaptivePortal_m(active) == active

startCaptivePortal(active) == TRUE
stopCaptivePortal(active) == FALSE

\* A faulty variant of the reconnect test: the interval is ignored.
ReconnectDue_m == wifiReconnectPending

\* The reconnect test of handleWifiTasks.
ReconnectDue ==
  \/ wifiReconnectPending
  \/ ULong(now - lastReconnectAttempt) > Ticks(WIFI_RECONNECT_INTERVAL_MS)

\* WiFi.begin as it shows among the calls of a step.
WifiBegin(c) ==
  [method |-> "begin", path |-> "", id |-> c.ssid,
   body |-> [password |-> c.password], res |-> "ok", done |-> TRUE,
   scanning |-> scanState.isScanning]

\* One supervisor tick.  (The static lastConnected of the source only drives
\* log output and the OTA service, which are not modelled.)
handleWifiTasks ==
  /\ reply' = NoReply
  /\ op' = "tick"
  /\ req' = NoReq
  /\ UNCHANGED lastConnect
  /\ served' = FALSE
  /\ running
  /\ UNCHANGED <<scanState, configVars, clockVars, router, hist>>
  /\ IF wifi = "connected"
     THEN /\ captivePortalActive' =
               IF captivePortalActive THEN stopCaptivePortal(captivePortalActive)
               ELSE captivePortalActive
          /\ calls' = <<>>
          /\ UNCHANGED <<wifiReconnectPending, lastReconnectAttempt, wifi,
                         attempt>>
     ELSE /\ captivePortalActive' =
               IF ~captivePortalActive THEN startCaptivePortal(captivePortalActive)
               ELSE captivePortalActive
          /\ IF runtimeConfig.wifiSsid # "" /\ ReconnectDue
             THEN \* attemptWifiConnect: the SSID is not empty here
                  /\ wifi' = "connecting"
                  /\ attempt' = Credentials(runtimeConfig)
                  /\ lastReconnectAttempt' = now
                  /\ wifiReconnectPending' = FALSE
                  /\ calls' = <<WifiBegin(Credentials(runtimeConfig))>>
             ELSE /\ calls' = <<>>
                  /\ UNCHANGED <<wifiReconnectPending, lastReconnectAttempt,
                                 wifi, attempt>>

\* The radio: an attempt succeeds or fails, a connection is lost.
WifiChange ==
  /\ \/ wifi = "connecting" /\ wifi' \in {"connected", "idle"}
     \/ wifi = "connected" /\ wifi' = "idle"
  /\ Quiet("wifi")
  /\ UNCHANGED <<scanState, configVars, captivePortalActive,
                 wifiReconnectPending, lastReconnectAttempt, attempt,
                 clockVars, router, hist, served>>

----------------------------------------------------------------------------
(* Settings update and boot *)

\* POST /api/settings.  The handler is not behind ensureOperationAllowed.
handleSettingsUpdate(b) ==
  LET cfg == Assigned(runtimeConfig, b)
      done == [cfg EXCEPT !.scanDurationSeconds =
                 IF scanChanged(b) THEN b.duration_seconds ELSE @]
  IN /\ Serving
     /\ req' = b
     /\ UNCHANGED <<scanState, clockVars, hist, lastConnect, wifi, attempt,
                    filesystemAvailable, running>>
     /\ IF ~b.valid
        THEN /\ Finish("settings", World,
                       [code |-> 400, status |-> "Invalid JSON"])
             /\ UNCHANGED <<runtimeConfig, stored, captivePortalActive,
                            wifiReconnectPending, lastReconnectAttempt>>
        ELSE IF scanChanged(b) /\ b.duration_seconds <= 0
        THEN /\ Finish("settings", World,
                       [code |-> 400, status |-> "invalid_scan_duration"])
             /\ runtimeConfig' = cfg
             /\ UNCHANGED <<stored, captivePortalActive,
                            wifiReconnectPending, lastReconnectAttempt>>
        ELSE IF ~(wifiChanged(b) \/ mikrotikChanged(b))
        THEN /\ Finish("settings", World,
                       SettingsReply(b, captivePortalActive))
             /\ runtimeConfig' = done
             /\ UNCHANGED <<stored, captivePortalActive,
                            wifiReconnectPending, lastReconnectAttempt>>
        ELSE \E sv \in saveRuntimeConfigToFile(done, stored,
                                                filesystemAvailable) :
               /\ runtimeConfig' = done
               /\ stored' = sv.file
               /\ IF ~sv.ok
                  THEN /\ Finish("settings", World,
                             [code |-> 500,
                              status |-> "Failed to save configuration"])
                       /\ UNCHANGED <<captivePortalActive,
                                      wifiReconnectPending,
                                      lastReconnectAttempt>>
                  ELSE /\ IF wifiChanged(b)
                          THEN /\ wifiReconnectPending' = TRUE
                               /\ lastReconnectAttempt' = 0
                               /\ captivePortalActive' =
                                    startCaptivePortal(captivePortalActive)
                          ELSE UNCHANGED <<captivePortalActive,
                                           wifiReconnectPending,
                                           lastReconnectAttempt>>
                       /\ Finish("settings", World,
                                 SettingsReply(b, captivePortalActive'))

\* setup(): mount, load, first connection attempt within
\* WIFI_INITIAL_CONNECT_TIMEOUT_MS, captive portal if it does not succeed.
setup ==
  /\ ~running
  /\ running' = TRUE
  /\ \E fs \in BOOLEAN :
       /\ filesystemAvailable' = fs
       /\ \E ld \in IF fs THEN loadRuntimeConfigFromFile(stored)
                     ELSE {[cfg |-> InitConfig, file |-> stored]} :
            /\ runtimeConfig' = ld.cfg
            /\ stored' = ld.file
            /\ IF ld.cfg.wifiSsid # ""
               THEN /\ attempt' = Credentials(ld.cfg)
                    /\ \E joined \in BOOLEAN :
                         IF joined
                         THEN /\ wifi' = "connected"
                              /\ now' = Ticks(1000 + 2000)
                              /\ lastReconnectAttempt' = now'
                              /\ UNCHANGED <<captivePortalActive,
                                             wifiReconnectPending>>
                         ELSE /\ wifi' = "connecting"
                              /\ now' = Ticks(1000 + 100
                                              + WIFI_INITIAL_CONNECT_TIMEOUT_MS)
                              /\ lastReconnectAttempt' = Ticks(1000 + 100)
                              /\ captivePortalActive' =
                                   startCaptivePortal(captivePortalActive)
                              /\ wifiReconnectPending' = TRUE
               ELSE /\ now' = Ticks(1000)
                    /\ captivePortalActive' =
                         startCaptivePortal(captivePortalActive)
                    /\ UNCHANGED <<wifiReconnectPending, lastReconnectAttempt,
                                   wifi, attempt>>
  /\ calls' = <<>>
  /\ reply' = NoReply
  /\ op' = "setup"
  /\ req' = NoReq
  /\ UNCHANGED <<scanState, elapses, router, hist, lastConnect, served>>

----------------------------------------------------------------------------
(* Specification of the scan workflow *)

InitWlan(present, band) ==
  [present |-> present, name |-> "wlan1", id |-> "*1", band |-> band,
   mode |-> "station", ssid |-> "", profile |-> "default", disabled |-> "no"]

\* After setup() with the station connected.
InitConnected ==
  /\ runtimeConfig = InitConfig
  /\ stored = [state |-> "ok", keys |-> Sections, cfg |-> InitConfig]
  /\ filesystemAvailable = TRUE
  /\ running = TRUE
  /\ lastReconnectAttempt = 0
  /\ wifi = "connected"
  /\ attempt = Credentials(InitConfig)
  /\ captivePortalActive = FALSE
  /\ wifiReconnectPending = FALSE


InitScan ==
  /\ scanState = EmptyScanState
  /\ InitConnected
  /\ now = 0
  /\ elapses = 0
  /\ \E present \in BOOLEAN :
       router = [wlan |-> InitWlan(present, "2ghz"), tmpfs |-> FALSE,
                 csv |-> "", job |-> "", profiles |-> <<>>]
  /\ calls = <<>>
  /\ reply = NoReply
  /\ op = "boot"
  /\ req = NoReq
  /\ lastConnect = NoReq
  /\ served = FALSE
  /\ hist = IdleHist

NextScan ==
  \/ \E arg \in BandArgs : handleScanStart(arg)
  \/ handleScanResult
  \/ Elapse
  \/ RouterScanDone
  \/ handleWifiTasks
  \/ WifiChange

SpecScan == InitScan /\ [][NextScan]_vars

\* The scan workflow against a router whose interface list may lack the
\* configured interface, hold it under another name, or hold it without .id.
InitInterface ==
  /\ scanState = EmptyScanState
  /\ InitConnected
  /\ now = 0
  /\ elapses = 0
  /\ \E present \in BOOLEAN, name \in {"wlan1", "wlan2"}, id \in {"*1", ""} :
       router = [wlan |-> [InitWlan(present, "2ghz") EXCEPT !.name = name,
                                                            !.id = id],
                 tmpfs |-> FALSE, csv |-> "", job |-> "", profiles |-> <<>>]
  /\ calls = <<>>
  /\ reply = NoReply
  /\ op = "boot"
  /\ req = NoReq
  /\ lastConnect = NoReq
  /\ served = FALSE
  /\ hist = IdleHist

SpecInterface == InitInterface /\ [][NextScan]_vars

\* The scan workflow with a clock that does not stop under a scan: millis()
\* advances past MaxElapse while a scan is in progress and has not timed
\* out, and no scan is started once the clock has passed MaxElapse.
ElapseScanning ==
  /\ running
  /\ \/ elapses < MaxElapse
     \/ scanState.isScanning /\ Elapsed <= Timeout
  /\ \E d \in ElapseSteps : now' = ULong(now + d)
  /\ elapses' = elapses + 1
  /\ Quiet("elapse")
  /\ UNCHANGED <<scanState, configVars, supervisorVars, router, hist,
                 served>>

NextScanLive ==
  \/ \E arg \in BandArgs : elapses <= MaxElapse /\ handleScanStart(arg)
  \/ handleScanResult
  \/ ElapseScanning
  \/ RouterScanDone
  \/ handleWifiTasks
  \/ WifiChange

\* millis() is a hardware counter: time advances whatever the program does.
SpecScanLive ==
  InitScan /\ [][NextScanLive]_vars /\ WF_vars(ElapseScanning)

----------------------------------------------------------------------------
(* Specification of the connect workflow *)

Secret(mode) == IF mode = "dynamic-keys" THEN "secret" ELSE ""
Auth(mode) == IF mode = "dynamic-keys" THEN "wpa-psk,wpa2-psk" ELSE ""

Comments == {NoComment} \cup {Marker(ssid) : ssid \in Ssids}
Profiles ==
  {[name |-> n, comment |-> c, mode |-> m, auth |-> Auth(m), psk |-> Secret(m)] :
     n \in Names, c \in Comments, m \in Modes}

MarkerCount(list, comment) ==
  Cardinality({i \in 1..Len(list) : list[i].comment = comment})

\* The router's profile lists at the start: names are unique on the router,
\* and no two profiles carry the same marker.
Beside(p) ==
  {q \in Profiles :
     q.name # p.name /\ (q.comment = NoComment \/ q.comment # p.comment)}
InitProfiles ==
  {<<>>} \cup {<<p>> : p \in Profiles}
         \cup UNION {{<<p, q>> : q \in Beside(p)} : p \in Profiles}

InitConnect ==
  /\ scanState = EmptyScanState
  /\ InitConnected
  /\ now = 0
  /\ elapses = 0
  /\ \E list \in InitProfiles :
       router = [wlan |-> InitWlan(TRUE, "2ghz"), tmpfs |-> FALSE,
                 csv |-> "", job |-> "", profiles |-> list]
  /\ calls = <<>>
  /\ reply = NoReply
  /\ op = "boot"
  /\ req = NoReq
  /\ lastConnect = NoReq
  /\ served = FALSE
  /\ hist = IdleHist

NextConnect ==
  \/ \E a \in ConnectArgs : handleConnect(a)
  \/ handleWifiTasks
  \/ WifiChange

SpecConnect == InitConnect /\ [][NextConnect]_vars

----------------------------------------------------------------------------
(* Specification of the device: boot, settings and connectivity *)

\* The files setup() may find: none, an unparsable one, or a document,
\* with or without an SSID, its scan section, a positive scan duration.
StoredConfig(ssid, duration) ==
  [InitConfig EXCEPT !.wifiSsid = ssid, !.scanDurationSeconds = duration]
StoredFiles ==
  {NoFile, [NoFile EXCEPT !.state = "corrupt"]} \cup
  {[state |-> "ok", keys |-> Sections, cfg |-> StoredConfig(f[1], f[2])] :
     f \in {<<"lan", 7>>, <<"lan", 0>>, <<"", -1>>}} \cup
  {[state |-> "ok", keys |-> Sections \ {"scan"},
    cfg |-> StoredConfig("lan", 0)]}

\* Power-on: nothing has run yet.
InitDevice ==
  /\ scanState = EmptyScanState
  /\ runtimeConfig = ZeroConfig
  /\ stored \in StoredFiles
  /\ filesystemAvailable = FALSE
  /\ running = FALSE
  /\ captivePortalActive = FALSE
  /\ wifiReconnectPending = FALSE
  /\ lastReconnectAttempt = 0
  /\ wifi = "idle"
  /\ attempt = NoAttempt
  /\ now = 0
  /\ elapses = 0
  /\ router = [wlan |-> InitWlan(TRUE, "2ghz"), tmpfs |-> FALSE,
               csv |-> "", job |-> "", profiles |-> <<>>]
  /\ calls = <<>>
  /\ reply = NoReply
  /\ op = "poweron"
  /\ req = NoReq
  /\ lastConnect = NoReq
  /\ served = FALSE
  /\ hist = IdleHist

NextDevice ==
  \/ setup
  \/ \E b \in SettingsBodies : handleSettingsUpdate(b)
  \/ handleWifiTasks
  \/ WifiChange

SpecDevice == InitDevice /\ [][NextDevice]_vars

\* loop() never stops calling handleWifiTasks.
SpecDeviceFair == SpecDevice /\ WF_vars(handleWifiTasks)

----------------------------------------------------------------------------
(* Specification of the HTTP boundary: every mutating endpoint, with the   *)
(* device connected or in captive fallback                                 *)

\* After setup() with the first connection attempt failed.
InitCaptive ==
  /\ runtimeConfig = InitConfig
  /\ stored = [state |-> "ok", keys |-> Sections, cfg |-> InitConfig]
  /\ filesystemAvailable = TRUE
  /\ running = TRUE
  /\ lastReconnectAttempt = Ticks(1000 + 100)
  /\ wifi = "connecting"
  /\ attempt = Credentials(InitConfig)
  /\ captivePortalActive = TRUE
  /\ wifiReconnectPending = TRUE

PortalProfiles ==
  {<<>>,
   <<[name |-> "client-home", comment |-> Marker("home"), mode |-> "none",
      auth |-> "", psk |-> ""]>>}

PortalConnectArgs ==
  [ssid : {"", "home"}, password : {"secret"}, band : {"5ghz"},
   requiresPassword : BOOLEAN, profileName : {""}]

PortalDeleteArgs ==
  {a \in DeleteArgs : a.profileName = "" /\ a.ssid \in {"", "home"}}

PortalSettings ==
  {b \in SettingsBodies : b.has \subseteq {"ssid"} /\ b.ssid # " "}

InitPortal ==
  /\ scanState = EmptyScanState
  /\ \/ InitConnected /\ now = 0
     \/ InitCaptive
        /\ now = Ticks(1000 + 100 + WIFI_INITIAL_CONNECT_TIMEOUT_MS)
  /\ elapses = 0
  /\ \E list \in PortalProfiles :
       router = [wlan |-> InitWlan(TRUE, "2ghz"), tmpfs |-> FALSE,
                 csv |-> "", job |-> "", profiles |-> list]
  /\ calls = <<>>
  /\ reply = NoReply
  /\ op = "boot"
  /\ req = NoReq
  /\ lastConnect = NoReq
  /\ served = FALSE
  /\ hist = IdleHist

NextPortal ==
  \/ \E arg \in BandArgs : handleScanStart(arg)
  \/ \E a \in PortalConnectArgs : handleConnect(a)
  \/ handleDisconnect
  \/ \E a \in PortalDeleteArgs : handleDeleteProfile(a)
  \/ \E b \in PortalSettings : handleSettingsUpdate(b)
  \/ handleWifiTasks

SpecPortal == InitPortal /\ [][NextPortal]_vars

\* The supervisor over the reconnect interval: the device has booted, with
\* or without a connection; the clock advances in steps of half the
\* interval.
ReconnectStep == Ticks(WIFI_RECONNECT_INTERVAL_MS \div 2)

ReconnectSettings == {b \in SettingsBodies : b.valid /\ b.has = {"ssid"}}

ElapseReconnect ==
  /\ running
  /\ elapses < MaxWait
  /\ now' = ULong(now + ReconnectStep)
  /\ elapses' = elapses + 1
  /\ Quiet("elapse")
  /\ UNCHANGED <<scanState, configVars, supervisorVars, router, hist,
                 served>>

InitReconnect ==
  /\ scanState = EmptyScanState
  /\ \/ InitConnected /\ now = 0
     \/ InitCaptive
        /\ now = Ticks(1000 + 100 + WIFI_INITIAL_CONNECT_TIMEOUT_MS)
  /\ elapses = 0
  /\ router = [wlan |-> InitWlan(TRUE, "2ghz"), tmpfs |-> FALSE,
               csv |-> "", job |-> "", profiles |-> <<>>]
  /\ calls = <<>>
  /\ reply = NoReply
  /\ op = "boot"
  /\ req = NoReq
  /\ lastConnect = NoReq
  /\ served = FALSE
  /\ hist = IdleHist

NextReconnect ==
  \/ \E b \in ReconnectSettings : handleSettingsUpdate(b)
  \/ handleWifiTasks
  \/ WifiChange
  \/ ElapseReconnect

\* loop() never stops calling handleWifiTasks, and millis() is a hardware
\* counter.
SpecReconnect ==
  /\ InitReconnect
  /\ [][NextReconnect]_vars
  /\ WF_vars(handleWifiTasks)
  /\ WF_vars(ElapseReconnect)

\* The device shortly before millis() wraps to 0, after 2^32 ms of uptime:
\* a connection attempt has just been made.  Once it succeeds scans are
\* admitted; the clock advances in polling steps and in steps of half the
\* reconnect interval.
WrapStart == MillisModulus - 2 * Ticks(2500)

WrapSettings == {b \in ReconnectSettings : b.ssid # " "}

InitWrap ==
  /\ scanState = EmptyScanState
  /\ runtimeConfig = InitConfig
  /\ stored = [state |-> "ok", keys |-> Sections, cfg |-> InitConfig]
  /\ filesystemAvailable = TRUE
  /\ running = TRUE
  /\ now = WrapStart
  /\ lastReconnectAttempt = now
  /\ wifi = "connecting"
  /\ attempt = Credentials(InitConfig)
  /\ captivePortalActive = TRUE
  /\ wifiReconnectPending = FALSE
  /\ elapses = 0
  /\ router = [wlan |-> InitWlan(TRUE, "2ghz"), tmpfs |-> FALSE,
               csv |-> "", job |-> "", profiles |-> <<>>]
  /\ calls = <<>>
  /\ reply = NoReply
  /\ op = "boot"
  /\ req = NoReq
  /\ lastConnect = NoReq
  /\ served = FALSE
  /\ hist = IdleHist

NextWrap ==
  \/ \E arg \in {""} : handleScanStart(arg)
  \/ handleScanResult
  \/ \E b \in WrapSettings : handleSettingsUpdate(b)
  \/ handleWifiTasks
  \/ WifiChange
  \/ Elapse
  \/ ElapseReconnect

SpecWrap == InitWrap /\ [][NextWrap]_vars

----------------------------------------------------------------------------
(* Specification of profile deletion *)

\* The router's profile lists at the start: profiles with and without a
\* marker, among them the marker of the empty SSID.
DeleteProfiles ==
  {[name |-> n, comment |-> c, mode |-> "none", auth |-> "", psk |-> ""] :
     n \in Names, c \in Comments \cup {Marker("")}}
InitDeleteProfiles ==
  {<<>>} \cup {<<p>> : p \in DeleteProfiles}
         \cup {<<p, q>> : p \in {x \in DeleteProfiles : x.name = "client-home"},
                          q \in {x \in DeleteProfiles : x.name = "client-cafe"}}

InitDelete ==
  /\ scanState = EmptyScanState
  /\ InitConnected
  /\ now = 0
  /\ elapses = 0
  /\ \E list \in InitDeleteProfiles :
       router = [wlan |-> InitWlan(TRUE, "2ghz"), tmpfs |-> FALSE,
                 csv |-> "", job |-> "", profiles |-> list]
  /\ calls = <<>>
  /\ reply = NoReply
  /\ op = "boot"
  /\ req = NoReq
  /\ lastConnect = NoReq
  /\ served = FALSE
  /\ hist = IdleHist

NextDelete ==
  \/ \E a \in DeleteArgs : handleDeleteProfile(a)
  \/ handleWifiTasks

SpecDelete == InitDelete /\ [][NextDelete]_vars

----------------------------------------------------------------------------
(* Specification of the scan timing: the scan duration is set through the  *)
(* settings, scans are started and polled, and GET /api/config is read     *)

\* Scan durations a settings update can carry: any positive int.  The two
\* large ones are the last whose milliseconds fit an unsigned long and the
\* first whose milliseconds do not.
TimingDurations == {7, 4294967, 4294968}
TimingSettings ==
  {[valid |-> TRUE, has |-> {"duration_seconds"}, ssid |-> "",
    password |-> "", wlan_interface |-> "", duration_seconds |-> d] :
     d \in TimingDurations}

InitTiming ==
  /\ scanState = EmptyScanState
  /\ InitConnected
  /\ now = 0
  /\ elapses = 0
  /\ router = [wlan |-> InitWlan(TRUE, "2ghz"), tmpfs |-> FALSE,
               csv |-> "", job |-> "", profiles |-> <<>>]
  /\ calls = <<>>
  /\ reply = NoReply
  /\ op = "boot"
  /\ req = NoReq
  /\ lastConnect = NoReq
  /\ served = FALSE
  /\ hist = IdleHist

NextTiming ==
  \/ \E b \in TimingSettings : handleSettingsUpdate(b)
  \/ \E arg \in BandArgs : handleScanStart(arg)
  \/ handleScanResult
  \/ handleConfig
  \/ handleWifiTasks
  \/ Elapse

SpecTiming == InitTiming /\ [][NextTiming]_vars

----------------------------------------------------------------------------
(* Specification of a scan among the other operations: every endpoint, the *)
(* supervisor and the clock                                                *)

FrameConnectArgs ==
  {a \in PortalConnectArgs : a.ssid = "home" /\ a.requiresPassword}
FrameDeleteArgs == {a \in PortalDeleteArgs : a.valid /\ a.ssid = "home"}
FrameSettings == {b \in PortalSettings : b.valid /\ b.has = {"ssid"}}

InitFrame ==
  /\ scanState = EmptyScanState
  /\ InitConnected
  /\ now = 0
  /\ elapses = 0
  /\ router = [wlan |-> InitWlan(TRUE, "2ghz"), tmpfs |-> FALSE,
               csv |-> "", job |-> "", profiles |-> <<>>]
  /\ calls = <<>>
  /\ reply = NoReply
  /\ op = "boot"
  /\ req = NoReq
  /\ lastConnect = NoReq
  /\ served = FALSE
  /\ hist = IdleHist

NextFrame ==
  \/ \E arg \in BandArgs : handleScanStart(arg)
  \/ handleScanResult
  \/ \E a \in FrameConnectArgs : handleConnect(a)
  \/ handleDisconnect
  \/ \E a \in FrameDeleteArgs : handleDeleteProfile(a)
  \/ \E b \in FrameSettings : handleSettingsUpdate(b)
  \/ handleWifiTasks
  \/ Elapse

SpecFrame == InitFrame /\ [][NextFrame]_vars

----------------------------------------------------------------------------
(* Properties of the scan workflow.  start() and result() are the          *)
(* orchestrator's operations: a request the HTTP boundary admits.  A step  *)
(* with op' = "start" is a POST /api/scan/start, one with op' = "result"   *)
(* a GET /api/scan/result.                                                 *)

Admitted == ~captivePortalActive
SinceStart == (now - scanState.startTime) % MillisModulus
IssuedIn(cs, method, path) ==
  {i \in 1..Len(cs) : cs[i].method = method /\ cs[i].path = path}
Triggers(cs) == IssuedIn(cs, "POST", "/interface/wireless/scan")
Releases(cs) == IssuedIn(cs, "GET", "/disk")

\* C1: a start() invoked while a scan is in progress answers
\* already_scanning, issues no remote call and leaves every field of
\* ScanState unchanged; so no scan is accepted while one is in progress.
C1_StartWhileScanning ==
  [][(op' = "start" /\ Admitted /\ scanState.isScanning)
       => (/\ reply'.status = "already_scanning"
           /\ calls' = <<>>
           /\ scanState' = scanState)]_vars

C1_Witness ==
  /\ op = "start"
  /\ reply.status = "already_scanning"
  /\ scanState.isScanning

\* C2: while a scan is in progress and less than min_ready_ms has elapsed
\* since its start, result() answers pending, issues no remote call and
\* leaves ScanState unchanged.
C2_PendingBeforeMinReady ==
  [][(/\ op' = "result"
      /\ Admitted
      /\ scanState.isScanning
      /\ SinceStart < scanState.minReadyMs)
       => (/\ reply'.status = "pending"
           /\ calls' = <<>>
           /\ scanState' = scanState)]_vars

C2_Witness ==
  /\ op = "result"
  /\ reply.status = "pending"
  /\ scanState.isScanning
  /\ now # scanState.startTime
  /\ SinceStart < scanState.minReadyMs

\* C3: for each accepted start() at most one result() returns the success
\* payload, and a result() that follows a delivery, no start() having been
\* accepted in between, answers no_result without any remote call.
C3_ExactlyOnce ==
  /\ [](hist.delivered <= 1)
  /\ [][(op' = "result" /\ Admitted /\ hist.delivered = 1)
          => (reply'.status = "no_result" /\ calls' = <<>>)]_vars

C3_Witness ==
  /\ op = "result"
  /\ reply.status = "no_result"
  /\ hist.delivered = 1

\* C4: a result() made while a scan is in progress and more than timeout_ms
\* has elapsed answers timeout, clears the in-progress flag and invokes the
\* release once; no later result() releases again for that scan.
C4_TimeoutReleasesOnce ==
  /\ [](hist.released <= 1)
  /\ [][(/\ op' = "result"
         /\ Admitted
         /\ scanState.isScanning
         /\ SinceStart > scanState.resultTimeoutMs)
          => (/\ reply'.status = "timeout"
              /\ ~scanState'.isScanning
              /\ Cardinality(Releases(calls')) = 1
              /\ hist'.released = 1)]_vars

C4_Witness ==
  /\ op = "result"
  /\ reply.status = "timeout"
  /\ ~scanState.isScanning
  /\ hist.released = 1

\* C5: the scan-trigger call is issued with the in-progress flag already
\* set, and once a start() was accepted a result() made before min_ready
\* has elapsed answers pending, never no_result.
C5_InProgressBeforeTrigger ==
  /\ [](\A i \in Triggers(calls) : calls[i].scanning)
  /\ [][(op' = "start" /\ reply'.status = "started")
          => (scanState'.isScanning /\ scanState'.startTime = now')]_vars
  /\ [][(/\ op' = "result"
         /\ Admitted
         /\ scanState.minReadyMs > 0
         /\ SinceStart < scanState.minReadyMs)
          => reply'.status = "pending"]_vars

C5_Witness ==
  /\ op = "result"
  /\ reply.status = "pending"
  /\ scanState.isScanning
  /\ now = scanState.startTime

\* C6: if the storage cannot be ensured (the volume listing fails, or the
\* volume is absent and the create call fails), start() answers with the
\* resource-unavailable error, issues no scan trigger and leaves ScanState
\* unchanged with no scan in progress.
StorageNotEnsured(cs) ==
  \/ \E i \in IssuedIn(cs, "GET", "/disk") : cs[i].res # "ok"
  \/ \E i \in IssuedIn(cs, "POST", "/disk/add") : ~cs[i].done

C6_StorageUnavailable ==
  [][(op' = "start" /\ Admitted /\ ~scanState.isScanning
        /\ StorageNotEnsured(calls'))
       => (/\ reply'.code = 500
           /\ Triggers(calls') = {}
           /\ scanState' = scanState
           /\ ~scanState'.isScanning)]_vars

----------------------------------------------------------------------------
(* Properties of the security profile reconciler.  ensure() is             *)
(* ensureSecurityProfile, reached through an admitted POST /api/connect: a *)
(* step with op' = "connect", whose request is req' and whose remote calls *)
(* are calls'.  The listing is the first call; the profile the reconciler  *)
(* selected is the one its DELETE or PATCH names.                          *)

ProfilesPath == "/interface/wireless/security-profiles"
Listed == Len(calls') >= 1 /\ calls'[1].res = "ok"
Wanted == ProfileName(req'.ssid, req'.profileName)
Found == FindProfile(router.profiles, Wanted, Marker(req'.ssid))
ModeDiffers ==
  /\ Found # 0
  /\ router.profiles[Found].mode # DesiredMode(req'.requiresPassword)
Deletes(cs) == IssuedIn(cs, "DELETE", ProfilesPath)
Updates(cs) == IssuedIn(cs, "PATCH", ProfilesPath)
Creates(cs) == IssuedIn(cs, "POST", ProfilesPath \o "/add")
Attaches(cs) == IssuedIn(cs, "PATCH", "/interface/wireless")
Ensures == op' = "connect" /\ Admitted /\ Listed

C8_Idempotent ==
  /\ [][(/\ op' = "connect"
         /\ lastConnect' = req'
         /\ MarkerCount(router.profiles, Marker(req'.ssid)) <= 1)
          => MarkerCount(router'.profiles, Marker(req'.ssid)) <= 1]_vars
  /\ [][(/\ op' = "connect"
         /\ lastConnect' = req'
         /\ lastConnect = req')
          => (/\ Updates(calls') # {}
              /\ Creates(calls') = {}
              /\ Deletes(calls') = {})]_vars

\* C9: when the listing holds a profile whose name equals the profile name
\* and a different profile whose marker matches the network, ensure()
\* selects the marker-matching profile, whatever their order.
NameMatches ==
  {i \in 1..Len(router.profiles) :
     /\ router.profiles[i].name = Wanted
     /\ router.profiles[i].comment # Marker(req'.ssid)}
MarkerMatches ==
  {i \in 1..Len(router.profiles) :
     router.profiles[i].comment = Marker(req'.ssid)}

C9_MarkerPrecedence ==
  [][(Ensures /\ NameMatches # {} /\ MarkerMatches # {})
       => \E i \in MarkerMatches :
            /\ Len(calls') >= 2
            /\ calls'[2].path = ProfilesPath
            /\ calls'[2].id = router.profiles[i].name]_vars

\* C10: if no matching profile exists (or it was just deleted), the desired
\* mode requires a credential and none is supplied, no profile is created
\* and POST /connect reports the failure: it neither attaches a profile
\* name to the interface nor answers success.
C10_CredentialRequired ==
  [][(/\ Ensures
      /\ PasswordMissing(req'.password, req'.requiresPassword)
      /\ (Found = 0 \/ ModeDiffers))
       => (/\ Creates(calls') = {}
           /\ Attaches(calls') = {}
           /\ reply'.code # 200)]_vars

----------------------------------------------------------------------------
(* Further properties of the scan workflow.  The band a start() asks for   *)
(* is req'.band; the interface's current band is the one the router holds  *)
(* when the request arrives.                                               *)

BandPatches(cs) ==
  {i \in IssuedIn(cs, "PATCH", "/interface/wireless") :
     "band" \in DOMAIN cs[i].body /\ ~("ssid" \in DOMAIN cs[i].body)}
InterfaceFound ==
  /\ Len(calls') >= 1
  /\ calls'[1].res = "ok"
  /\ router.wlan.present
  /\ router.wlan.name = runtimeConfig.mikrotikWlanInterface

\* C11: when start(band) finds the interface's current band different from
\* the requested band it issues the band PATCH, then the settle delay, and
\* only afterwards the scan trigger; when the bands are equal it issues no
\* band PATCH.
C11_BandSwitchOrder ==
  [][(op' = "start" /\ Admitted /\ ~scanState.isScanning /\ InterfaceFound)
       => IF router.wlan.band # req'.band
          THEN /\ BandPatches(calls') = {2}
               /\ calls'[2].body.band = req'.band
               /\ Len(calls') >= 3
               /\ calls'[3].method = "delay"
               /\ calls'[3].body.ms = 500
               /\ \A t \in Triggers(calls') : t > 3
          ELSE BandPatches(calls') = {}]_vars

C11_Witness ==
  /\ op = "start"
  /\ reply.status = "started"
  /\ BandPatches(calls) = {2}
  /\ calls[3].method = "delay"
  /\ \E t \in Triggers(calls) : t > 3

----------------------------------------------------------------------------
(* Properties of boot, settings and the connectivity supervisor.  A step   *)
(* with op' = "settings" is a POST /api/settings with body req', one with  *)
(* op' = "tick" a call of handleWifiTasks, one with op' = "setup" the      *)
(* boot.                                                                    *)

Updated == op' = "settings" /\ reply'.code = 200

CredentialsChanged ==
  /\ op = "settings"
  /\ reply.code = 200
  /\ reply.wifi_changed
  /\ runtimeConfig.wifiSsid # ""
C14_NewCredentialsTried ==
  [](CredentialsChanged => <>(attempt = Credentials(runtimeConfig)))

\* C15: at the end of boot, if an SSID is configured and the station
\* connected, the captive portal is not active; otherwise the captive
\* portal is active and the pending-reconnect flag is set.
C15_BootOutcome ==
  [][op' = "setup"
       => IF runtimeConfig'.wifiSsid # "" /\ wifi' = "connected"
          THEN ~captivePortalActive'
          ELSE captivePortalActive' /\ wifiReconnectPending']_vars

\* C16: at the end of every supervisor tick the captive portal is active
\* if and only if the station is not connected.
C16_CaptiveIffDisconnected ==
  [][op' = "tick"
       => (/\ wifi = "connected" => ~captivePortalActive'
           /\ wifi # "connected" => captivePortalActive'
           /\ captivePortalActive' <=> wifi' # "connected")]_vars

C16_Witness ==
  /\ op = "tick"
  /\ wifi = "connected"
  /\ wifiReconnectPending
  /\ ~captivePortalActive

\* C17: after a settings update answered with success the persisted
\* configuration equals RuntimeConfig in every field, also when the update
\* changed only scan.duration_seconds.
Persisted(file, cfg) == file.state = "ok" /\ Loaded(file) = cfg
C17_PersistedEqualsMemory ==
  [][(Updated /\ Persisted(stored, runtimeConfig))
       => Persisted(stored', runtimeConfig')]_vars

\* C18: after boot RuntimeConfig.scanDurationSeconds is positive: loading
\* replaces a non-positive or missing stored value by the default, and a
\* settings update with a non-positive value is rejected without changing
\* the duration.
C18_ScanDurationPositive ==
  /\ [](running => runtimeConfig.scanDurationSeconds > 0)
  /\ [][(/\ op' = "settings"
         /\ "duration_seconds" \in req'.has
         /\ req'.duration_seconds <= 0)
          => (/\ reply'.code = 400
              /\ runtimeConfig'.scanDurationSeconds
                   = runtimeConfig.scanDurationSeconds
              /\ stored' = stored)]_vars

C18_Witness ==
  /\ op = "setup"
  /\ stored.state = "ok"
  /\ "scan" \in stored.keys
  /\ stored.cfg.scanDurationSeconds <= 0
  /\ runtimeConfig.wifiSsid = "lan"
  /\ runtimeConfig.scanDurationSeconds = SCAN_DURATION_SECONDS

----------------------------------------------------------------------------
(* Properties of the HTTP boundary.  The mutating endpoints are POST       *)
(* /api/scan/start, /api/connect, /api/disconnect, /api/profile/delete and *)
(* /api/settings; none of their paths is on the safelist of                *)
(* isPathAllowedDuringCaptive.                                             *)

GatedOps == {"start", "connect", "disconnect", "delete"}
MutatingOps == GatedOps \cup {"settings"}
Refused ==
  /\ reply' = CAPTIVE_REPLY
  /\ calls' = <<>>
  /\ scanState' = scanState
  /\ router' = router

\* C12 as stated: while the captive portal is active every mutating
\* endpoint answers 403 "Captive portal active", issues no remote call and
\* changes neither ScanState nor the router.
C12_CaptiveRejectsAll ==
  [][(captivePortalActive /\ op' \in MutatingOps) => Refused]_vars

\* C12 amended: while the captive portal is active every mutating endpoint
\* other than the settings update answers 403 "Captive portal active",
\* issues no remote call and changes neither ScanState nor the router; the
\* settings update is served, and it too issues no remote call and changes
\* neither ScanState nor the router.
C12_CaptiveRejectsOperations ==
  /\ [][(captivePortalActive /\ op' \in GatedOps) => Refused]_vars
  /\ [][(captivePortalActive /\ op' = "settings")
          => (/\ reply'.code # CAPTIVE_REPLY.code
              /\ calls' = <<>>
              /\ scanState' = scanState
              /\ router' = router)]_vars

C12_Witness ==
  /\ op = "connect"
  /\ captivePortalActive
  /\ reply = CAPTIVE_REPLY
  /\ req.ssid = "home"

\* C19: POST /connect with a missing or empty ssid is rejected with an
\* error before any remote call is issued.
C19_EmptySsidRejected ==
  [][(op' = "connect" /\ Admitted /\ req'.ssid = "")
       => (reply'.code >= 400 /\ calls' = <<>>)]_vars

\* C20: if the interface PATCH of POST /connect or POST /disconnect fails
\* or times out, the operation answers with an error and not with success;
\* no remote call is issued twice within the operation.
PatchFailed(cs) ==
  \E i \in Attaches(cs) : ~(cs[i].res = "ok" /\ cs[i].done)
Retried(cs) ==
  \E i, j \in 1..Len(cs) :
     /\ i < j
     /\ cs[i].method = cs[j].method
     /\ cs[i].path = cs[j].path
     /\ cs[i].id = cs[j].id
C20_PatchFailureReported ==
  [][(op' \in {"connect", "disconnect"} /\ Admitted /\ PatchFailed(calls'))
       => (reply'.code >= 400 /\ ~Retried(calls'))]_vars

----------------------------------------------------------------------------
(* Properties of profile deletion.  A step with op' = "delete" is a POST   *)
(* /api/profile/delete whose body is req'.                                 *)

Deleting == op' = "delete" /\ Admitted
WellFormedDelete == req'.valid /\ (req'.ssid # "" \/ req'.profileName # "")

\* C21: POST /profile/delete issues a DELETE only for a profile whose
\* comment equals the marker of the requested ssid; a well-formed request
\* for which the listing holds no such profile, also one that names an
\* existing profile without the marker, gets 404 and issues no DELETE.
C21_DeleteOnlyMarked ==
  /\ [][Deleting
          => \A d \in Deletes(calls') :
               \E i \in 1..Len(router.profiles) :
                 /\ router.profiles[i].name = calls'[d].id
                 /\ router.profiles[i].comment = Marker(req'.ssid)]_vars
  /\ [][(Deleting /\ WellFormedDelete /\ Listed /\ MarkerMatches = {})
          => (reply'.code = 404 /\ Deletes(calls') = {})]_vars

C21_Witness ==
  /\ op = "delete"
  /\ reply.code = 404
  /\ calls # <<>>
  /\ calls[1].res = "ok"
  /\ \E i \in 1..Len(router.profiles) :
       /\ router.profiles[i].name = req.profileName
       /\ router.profiles[i].comment = NoComment

----------------------------------------------------------------------------
(* Further properties of result() and of the transient storage.  The       *)
(* release is removeTmpfs, which opens with the listing GET /disk; the     *)
(* removal of the artifact file is POST /file/remove.                      *)

FileRemovals(cs) == IssuedIn(cs, "POST", "/file/remove")
Unanswered(cs, S) == \E i \in S : ~(cs[i].res = "ok" /\ cs[i].done)
Delivers == op' = "result" /\ reply'.status = "result"

\* C22: the result() call that delivers the success payload clears the
\* in-progress and ready flags, requests the removal of the artifact file
\* and invokes the release exactly once, whether or not the profile-list
\* fetch or the file removal succeeded.
C22_DeliveryCleansUp ==
  [][Delivers
       => (/\ ~scanState'.isScanning
           /\ ~scanState'.hasResult
           /\ Cardinality(FileRemovals(calls')) = 1
           /\ Cardinality(Releases(calls')) = 1)]_vars

C22_Witness ==
  /\ op = "result"
  /\ reply.status = "result"
  /\ Unanswered(calls, IssuedIn(calls, "GET", ProfilesPath))
  /\ Cardinality(Releases(calls)) = 1
  /\ ~scanState.isScanning

\* C23: on the timeout path result() answers timeout and ends the scan
\* even if the remote calls of the release fail; no later result() issues
\* the release again, and a following start() is not refused as already
\* scanning: it is accepted if its own remote calls succeed.
ReleaseCalls(cs) == Releases(cs) \cup IssuedIn(cs, "POST", "/disk/remove")
AfterTimeout == hist.released = 1 /\ hist.delivered = 0
C23_FailedReleaseNotRetried ==
  /\ [][(/\ op' = "result"
         /\ Admitted
         /\ scanState.isScanning
         /\ SinceStart > scanState.resultTimeoutMs
         /\ Unanswered(calls', ReleaseCalls(calls')))
          => (reply'.status = "timeout" /\ ~scanState'.isScanning)]_vars
  /\ [][(op' = "result" /\ Admitted /\ AfterTimeout)
          => (reply'.status = "no_result" /\ calls' = <<>>)]_vars
  /\ [][(op' = "start" /\ Admitted /\ AfterTimeout)
          => (/\ reply'.status # "already_scanning"
              /\ (router.wlan.present /\ AllOk(calls'))
                   => reply'.status = "started")]_vars

C23_Witness ==
  /\ op = "result"
  /\ reply.status = "timeout"
  /\ Unanswered(calls, ReleaseCalls(calls))
  /\ router.tmpfs
  /\ ~scanState.isScanning

\* C24: every scan accepted by start() eventually leaves the in-progress
\* state and returns to Idle, provided time advances and result() keeps
\* being called and admitted (the captive portal not active); once more
\* than timeout_ms has elapsed the next admitted result() ends the scan.
Idle == ~scanState.isScanning /\ ~scanState.hasResult
PermittedResult == handleScanResult /\ Admitted
C24_ScanEnds ==
  /\ []<><<PermittedResult>>_vars => [](scanState.isScanning => <>Idle)
  /\ [][(/\ op' = "result"
         /\ Admitted
         /\ scanState.isScanning
         /\ SinceStart > scanState.resultTimeoutMs)
          => (~scanState'.isScanning /\ ~scanState'.hasResult)]_vars

C24_Witness ==
  /\ op = "result"
  /\ reply.status = "timeout"
  /\ elapses > MaxElapse
  /\ Idle

\* C25: there is no cancel.  The in-progress flag goes from true to false
\* only in a result() call; no start(), connect, disconnect, profile
\* delete, settings update, supervisor tick or passage of time clears it,
\* so a start() made after the timeout has elapsed and before any result()
\* still answers already_scanning.
C25_NoCancel ==
  /\ [][(scanState.isScanning /\ ~scanState'.isScanning)
          => op' = "result"]_vars
  /\ [][(/\ op' = "start"
         /\ Admitted
         /\ scanState.isScanning
         /\ SinceStart > scanState.resultTimeoutMs)
          => (/\ reply'.status = "already_scanning"
              /\ scanState' = scanState)]_vars

C25_Witness ==
  /\ op = "start"
  /\ reply.status = "already_scanning"
  /\ scanState.isScanning
  /\ SinceStart > scanState.resultTimeoutMs
  /\ runtimeConfig.wifiSsid # InitConfig.wifiSsid

\* C26: ensure() is idempotent.  When the listing shows that the reserved
\* volume already exists it returns success without issuing a create call;
\* an ensure() whose remote calls succeed leaves the volume in place, so
\* that two successive such calls create at most one volume.  (ensure() is
\* ensureTmpfs, called by a start() that found the interface; it opens
\* with GET /disk.)
VolumeCreates(cs) == IssuedIn(cs, "POST", "/disk/add")
EnsuresStorage ==
  /\ op' = "start"
  /\ Admitted
  /\ ~scanState.isScanning
  /\ IssuedIn(calls', "GET", "/disk") # {}
VolumeListed(cs) == \A i \in IssuedIn(cs, "GET", "/disk") : cs[i].res = "ok"
C26_EnsureIdempotent ==
  /\ [][(EnsuresStorage /\ VolumeListed(calls') /\ router.tmpfs)
          => (VolumeCreates(calls') = {} /\ reply'.code # 500)]_vars
  /\ [][(EnsuresStorage /\ AllOk(calls'))
          => (router'.tmpfs /\ Cardinality(VolumeCreates(calls')) <= 1)]_vars

C26_Witness ==
  /\ op = "start"
  /\ reply.status = "started"
  /\ IssuedIn(calls, "GET", "/disk") # {}
  /\ VolumeCreates(calls) = {}
  /\ router.tmpfs

\* C27: release() is idempotent.  If the listing shows the reserved volume
\* it issues exactly one delete, for that volume; if the volume is absent
\* it issues no mutating call; a release whose calls succeed leaves no
\* volume, so that a second release right after it is a no-op.  (release()
\* is removeTmpfs, called by result() on the delivery and timeout paths.)
VolumeRemoves(cs) == IssuedIn(cs, "POST", "/disk/remove")
Releasing == op' = "result" /\ Releases(calls') # {}
C27_ReleaseIdempotent ==
  /\ [][(Releasing /\ VolumeListed(calls') /\ router.tmpfs)
          => (/\ Cardinality(VolumeRemoves(calls')) = 1
              /\ \A i \in VolumeRemoves(calls') :
                   /\ calls'[i].body.numbers = "*1"
                   /\ \A r \in Releases(calls') : r < i)]_vars
  /\ [][(Releasing /\ ~router.tmpfs)
          => (VolumeRemoves(calls') = {} /\ VolumeCreates(calls') = {})]_vars
  /\ [][(Releasing /\ AllOk(calls')) => ~router'.tmpfs]_vars

C27_Witness ==
  /\ op = "result"
  /\ reply.status = "timeout"
  /\ Cardinality(VolumeRemoves(calls)) = 1
  /\ AllOk(calls)
  /\ ~router.tmpfs

----------------------------------------------------------------------------
(* Properties of the scan timing.  Times are in ticks of 4 ms; the         *)
(* products and sums on the right-hand sides are the exact ones, not the   *)
(* program's.  A step with op' = "config" is a GET /api/config.            *)

ExactDuration(cfg) == cfg.scanDurationSeconds * Ticks(1000)
ExactTimeout(cfg) ==
  ExactDuration(cfg) + Ticks(SCAN_RESULT_GRACE_MS)
                     + Ticks(SCAN_POLL_INTERVAL_MS)

\* C28: for every accepted start() the stored and the returned bounds
\* satisfy duration_ms = min_ready_ms = 1000 * scanDurationSeconds and
\* timeout_ms = duration_ms + grace + poll_interval_ms, hence
\* 0 < min_ready_ms < timeout_ms, and GET /config advertises the same
\* values for the same configuration.
C28_TimingBounds ==
  /\ [][(op' = "start" /\ reply'.status = "started")
          => (/\ scanState'.expectedDurationMs = ExactDuration(runtimeConfig)
              /\ scanState'.minReadyMs = ExactDuration(runtimeConfig)
              /\ scanState'.resultTimeoutMs = ExactTimeout(runtimeConfig)
              /\ reply'.duration_ms = scanState'.expectedDurationMs
              /\ reply'.min_ready_ms = scanState'.minReadyMs
              /\ reply'.timeout_ms = scanState'.resultTimeoutMs
              /\ 0 < scanState'.minReadyMs
              /\ scanState'.minReadyMs < scanState'.resultTimeoutMs)]_vars
  /\ [][op' = "config"
          => (/\ reply'.scan_duration_ms = ExactDuration(runtimeConfig)
              /\ reply'.scan_min_ready_ms = ExactDuration(runtimeConfig)
              /\ reply'.scan_timeout_ms = ExactTimeout(runtimeConfig))]_vars

----------------------------------------------------------------------------
(* Further properties of result() and start() *)

FileListings(cs) == IssuedIn(cs, "GET", "/file")
InWindow ==
  /\ op' = "result"
  /\ Admitted
  /\ scanState.isScanning
  /\ scanState.minReadyMs <= SinceStart
  /\ SinceStart <= scanState.resultTimeoutMs
ArtifactReady ==
  \E i \in 1..Len(RouterList(router, "/file")) :
     /\ RouterList(router, "/file")[i].name = scanState.csvFilename
     /\ RouterList(router, "/file")[i].contents # ""

\* C29: a result() call with min_ready <= elapsed <= timeout issues exactly
\* one file-listing call; if the listing fails or holds no file with
\* exactly the expected name and non-empty content, it answers pending,
\* issues no further remote call and leaves ScanState unchanged.
C29_OneListing ==
  /\ [][InWindow
          => (FileListings(calls') = {1} /\ calls'[1].scanning)]_vars
  /\ [][(InWindow /\ (calls'[1].res # "ok" \/ ~ArtifactReady))
          => (/\ reply'.status = "pending"
              /\ Len(calls') = 1
              /\ scanState' = scanState
              /\ hist' = hist)]_vars

C29_Witness ==
  /\ op = "result"
  /\ reply.status = "pending"
  /\ FileListings(calls) = {1}
  /\ calls[1].res = "ok"
  /\ router.job # ""
  /\ router.tmpfs
  /\ scanState.isScanning

\* C30: if the configured wireless interface is absent from the router's
\* list, or the list cannot be fetched or parsed, or the entry has no id,
\* start() answers with the interface-not-found error without issuing a
\* band patch, a storage ensure or a scan trigger, and leaves ScanState
\* unchanged.
InterfaceMissing ==
  \/ calls'[1].res # "ok"
  \/ ~router.wlan.present
  \/ router.wlan.name # runtimeConfig.mikrotikWlanInterface
  \/ router.wlan.id = ""
C30_InterfaceNotFound ==
  [][(op' = "start" /\ Admitted /\ ~scanState.isScanning /\ InterfaceMissing)
       => (/\ reply'.code = 404
           /\ reply'.status = "Configured WLAN interface not found"
           /\ Len(calls') = 1
           /\ BandPatches(calls') = {}
           /\ Releases(calls') = {}
           /\ VolumeCreates(calls') = {}
           /\ Triggers(calls') = {}
           /\ scanState' = scanState)]_vars

C30_Witness ==
  /\ op = "start"
  /\ reply.code = 404
  /\ calls[1].res = "ok"
  /\ router.wlan.present
  /\ router.wlan.name = runtimeConfig.mikrotikWlanInterface
  /\ router.wlan.id = ""

\* C31: the scan trigger is fire-and-forget.  The response of an accepted
\* start() and the ScanState it leaves are the same whether the router took
\* the trigger, refused it or did not answer in time; a trigger that failed
\* is not reported, and a scan whose trigger the router did not take ends
\* only through the timeout path of result().
C31_FireAndForget ==
  /\ [][(op' = "start" /\ Triggers(calls') # {})
          => (/\ scanState' = StartedState(req'.band)
              /\ reply' = StartedReply(StartedState(req'.band)))]_vars
  /\ [][(/\ op' = "result"
         /\ scanState.isScanning
         /\ ~scanState'.isScanning
         /\ ~hist.triggered)
          => reply'.status = "timeout"]_vars

\* C36: every success payload of result() carries the artifact the router
\* wrote for the scan in progress, the one whose band the payload reports,
\* never what an earlier scan left under the same filename.
C36_FreshArtifact ==
  [][Delivers => (hist.triggered /\ hist.written)]_vars

----------------------------------------------------------------------------
(* Properties of the reconnect logic.  A step with op' = "tick" is one    *)
(* handleWifiTasks; the WiFi.begin of a connection attempt shows in calls'. *)

Observes ==
  op' = "tick" /\ wifi # "connected" /\ runtimeConfig.wifiSsid # ""
IntervalElapsed ==
  now - lastReconnectAttempt > Ticks(WIFI_RECONNECT_INTERVAL_MS)
Attempts == op' = "tick" /\ calls' # <<>>
Attempted == op = "tick" /\ calls # <<>>
Waiting == running /\ wifi # "connected" /\ runtimeConfig.wifiSsid # ""

\* C32: a supervisor tick that observes not-connected with a non-empty SSID
\* issues a connection attempt if and only if the pending flag is set or
\* more than the reconnect interval has elapsed since the last attempt;
\* the attempt clears the pending flag and records the attempt time; while
\* the station stays disconnected another attempt always follows (as far
\* as the clock of the model runs), and with an empty SSID no attempt is
\* issued.
C32_ReconnectAttempts ==
  /\ [][Observes
          => (Attempts <=> (wifiReconnectPending \/ IntervalElapsed))]_vars
  /\ [][Attempts
          => (/\ ~wifiReconnectPending'
              /\ lastReconnectAttempt' = now
              /\ calls' = <<WifiBegin(Credentials(runtimeConfig))>>)]_vars
  /\ [][runtimeConfig.wifiSsid = "" => calls' = <<>>]_vars
  /\ [][calls' # <<>> /\ calls'[1].method = "begin" => op' = "tick"]_vars
  /\ [](Waiting /\ ~Attempted /\ elapses + 3 <= MaxWait
          => <>(Attempted \/ ~Waiting))

C32_Witness ==
  /\ op = "tick"
  /\ calls # <<>>
  /\ runtimeConfig = InitConfig
  /\ now = Ticks(WIFI_RECONNECT_INTERVAL_MS) + ReconnectStep
  /\ lastReconnectAttempt = now

----------------------------------------------------------------------------
(* Further properties of the profile reconciler.  The key fields         *)
(* wpa-pre-shared-key and wpa2-pre-shared-key of a payload are its psk.   *)

SameMode ==
  /\ Found # 0
  /\ router.profiles[Found].mode = DesiredMode(req'.requiresPassword)
PatchedInPlace ==
  /\ Cardinality(Updates(calls')) = 1
  /\ \A u \in Updates(calls') : calls'[u].id = router.profiles[Found].name
  /\ Deletes(calls') = {}
  /\ Creates(calls') = {}
  /\ \A i \in Attaches(calls') :
       calls'[i].body.profile = router.profiles[Found].name
HasKey(body) == "psk" \in DOMAIN body

\* C33: when ensure() finds a matching profile whose mode equals the
\* desired mode it issues exactly one PATCH addressed to the profile's
\* existing name and no DELETE or create, and returns the existing name
\* rather than the hint; in secured mode the payload holds the key fields
\* only if a credential was supplied, and then they are that credential.
\* (In open mode there is no credential: the payload holds the key fields,
\* empty.)
C33_PatchInPlace ==
  [][(Ensures /\ SameMode)
       => (/\ PatchedInPlace
           /\ \A u \in Updates(calls') :
                IF req'.requiresPassword
                THEN /\ HasKey(calls'[u].body) <=> req'.password # ""
                     /\ HasKey(calls'[u].body)
                          => calls'[u].body.psk = req'.password
                ELSE /\ HasKey(calls'[u].body)
                     /\ calls'[u].body.psk = "")]_vars

C33_Witness ==
  /\ op = "connect"
  /\ reply.status = "success"
  /\ req.requiresPassword
  /\ req.password = ""
  /\ req.profileName # ""
  /\ Cardinality(Updates(calls)) = 1
  /\ \A u \in Updates(calls) :
       calls[u].id # req.profileName /\ ~HasKey(calls[u].body)

----------------------------------------------------------------------------
(* Properties of the lock.  The calls on the storage slot are the listing *)
(* GET /disk, with which both ensureTmpfs and removeTmpfs open, the       *)
(* create POST /disk/add and the delete POST /disk/remove; each call      *)
(* carries the value isScanning had when it was issued.                   *)

DiskCalls(cs) ==
  {i \in 1..Len(cs) : cs[i].path \in {"/disk", "/disk/add", "/disk/remove"}}

\* C34: the controller never issues a volume delete or a second ensure
\* while a scan is in progress: every call of an ensure and of a release is
\* issued with the in-progress flag clear, a start() made during a scan
\* issues none, and a result() made during a scan issues the release only
\* after it has cleared the flag.
C34_FlagIsLock ==
  /\ [][\A i \in DiskCalls(calls') : ~calls'[i].scanning]_vars
  /\ [][(scanState.isScanning /\ DiskCalls(calls') # {})
          => (/\ op' = "result"
              /\ ~scanState'.isScanning
              /\ VolumeCreates(calls') = {})]_vars

C34_Witness ==
  /\ op = "result"
  /\ reply.status = "result"
  /\ calls[1].scanning
  /\ VolumeRemoves(calls) # {}
  /\ \A i \in VolumeRemoves(calls) : ~calls[i].scanning
  /\ ~scanState.isScanning

----------------------------------------------------------------------------
(* Properties of the result buffer *)

\* C35: ScanState.hasResult is false and ScanState.result is empty in every
\* reachable state; no operation buffers a result, so the buffered-result
\* branch of result() is never taken: every success payload comes from a
\* result() call that found the scan in progress and read the router's
\* files.
C35_NothingBuffered ==
  /\ [](~scanState.hasResult /\ scanState.result = "")
  /\ [][Delivers
          => (scanState.isScanning /\ FileListings(calls') # {})]_vars

C35_Witness ==
  /\ op = "result"
  /\ reply.status = "result"
  /\ hist.delivered = 1
  /\ ~scanState.isScanning
  /\ ~scanState.hasResult
  /\ scanState.result = ""

----------------------------------------------------------------------------
(* Properties of what the reconciler leaves on the router *)

Succeeds ==
  /\ op' = "connect"
  /\ reply'.code = 200
  /\ reply'.status = "success"
  /\ calls' # <<>>
  /\ AllOk(calls')
HoldsProfile(r, name, ssid, mode) ==
  \E k \in 1..Len(r.profiles) :
     /\ r.profiles[k].name = name
     /\ r.profiles[k].comment = Marker(ssid)
     /\ r.profiles[k].mode = mode

\* C37: whenever POST /connect answers success and every remote call it
\* made succeeded, the security-profile name it wrote to the interface
\* names a profile that exists on the router, carries the marker of the
\* requested network and has the desired mode.
C37_AttachedProfileExists ==
  [][Succeeds
       => (/\ Attaches(calls') # {}
           /\ \A i \in Attaches(calls') :
                /\ router'.wlan.profile = calls'[i].body.profile
                /\ HoldsProfile(router', calls'[i].body.profile, req'.ssid,
                                DesiredMode(req'.requiresPassword)))]_vars

Unmarked(cs, S) ==
  {i \in S : \E k \in 1..Len(router.profiles) :
                /\ router.profiles[k].name = cs[i].id
                /\ router.profiles[k].comment # Marker(req'.ssid)}

\* C38: ensure() never issues a PATCH or a DELETE against a profile that
\* lacks the marker of the requested network (an unmanaged profile, or one
\* tagged for another SSID), even when that profile's name equals the name
\* hint.
C38_UnmarkedUntouched ==
  [][Ensures
       => (/\ Unmarked(calls', Updates(calls')) = {}
           /\ Unmarked(calls', Deletes(calls')) = {})]_vars

----------------------------------------------------------------------------
(* Properties of a refused settings update *)

\* C39: a settings update answered with an error (invalid JSON,
\* invalid_scan_duration, failure to save) leaves RuntimeConfig, the
\* persisted configuration and the connectivity state as they were before
\* the request.
C39_ErrorChangesNothing ==
  [][(op' = "settings" /\ reply'.code >= 400)
       => (/\ runtimeConfig' = runtimeConfig
           /\ stored' = stored
           /\ UNCHANGED supervisorVars)]_vars

----------------------------------------------------------------------------
(* Properties of the elapsed-time tests across the wrap of millis().  In  *)
(* SpecWrap every recorded time lies in the last seconds before the wrap  *)
(* or in the first minutes after it, so the time really elapsed since a   *)
(* recorded time can be told from the two counter values.                 *)

Unwrapped(t) == IF t >= WrapStart THEN t ELSE t + MillisModulus
ReallySince(t) == Unwrapped(now) - Unwrapped(t)
Straddles(t) == t >= WrapStart /\ now < WrapStart

\* C40: the elapsed-time tests are unsigned differences of the
\* millisecond counter: a scan started, or a reconnect attempted, shortly
\* before the counter wraps to 0 is classified pending, polling, timed out
\* or interval-elapsed exactly as by the time that really elapsed.
C40_WrapSafe ==
  /\ [][(op' = "result" /\ Admitted /\ scanState.isScanning)
          => IF ReallySince(scanState.startTime) < scanState.minReadyMs
             THEN reply'.status = "pending" /\ calls' = <<>>
             ELSE IF ReallySince(scanState.startTime)
                       > scanState.resultTimeoutMs
             THEN reply'.status = "timeout"
             ELSE FileListings(calls') = {1}]_vars
  /\ [][(Observes /\ ~wifiReconnectPending)
          => (Attempts <=> ReallySince(lastReconnectAttempt)
                             > Ticks(WIFI_RECONNECT_INTERVAL_MS))]_vars
  /\ [][(Observes /\ wifiReconnectPending) => Attempts]_vars

C40_Witness ==
  /\ op = "result"
  /\ reply.status = "timeout"
  /\ Straddles(scanState.startTime)
  /\ ReallySince(scanState.startTime) > scanState.resultTimeoutMs

====
